---- MODULE Spec2Model ----
(***************************************************************************)
(* gmux: the interactive session (struct App of src/main.rs), its key      *)
(* dispatch, the add/edit flows, the commits through config.rs and the     *)
(* scheduler loop run_tui.                                                  *)
(*                                                                         *)
(* Conventions.  A Rust String / PathBuf is a sequence of one-character    *)
(* strings.  Option<T> is a sequence of length 0 (None) or 1 (Some).       *)
(* Indices are 0-based as in the source; element i of a Vec v is v[i+1].   *)
(* Instants are kept as elapsed times in milliseconds (the source only     *)
(* ever reads Instant::elapsed), saturated at the threshold they are       *)
(* compared with.                                                          *)
(***************************************************************************)
EXTENDS Integers, Sequences, FiniteSets, TLC

\* ------------------------------------------------------------------ bounds
\* Longest text the key source types into the edit buffer while it drives
\* the flows and commits (Spec, SpecLoop).
MaxLen == 1
\* Longest registry the Add flow is driven to.
MaxEntries == 2
\* The number of times the configuration file's write may fail in a session.
MaxSaveFailures == 1
\* Longest text the key source builds in the edit buffer while the line
\* editor alone is observed (SpecEdit).
MaxEditLen == 2

\* --------------------------------------------------------- program constants
BRANCH_REFRESH == 500
STATUS_TIMEOUT == 3000

\* ------------------------------------------------------------------ strings
None == << >>
Some(x) == << x >>
IsSome(o) == Len(o) = 1
Unwrap(o) == o[1]

Min(x, y) == IF x < y THEN x ELSE y
Max(x, y) == IF x > y THEN x ELSE y

\* char::is_whitespace on the characters of the model's alphabet
IsWhitespace(c) == c = " "

RECURSIVE TrimStart(_)
TrimStart(s) ==
    IF s # << >> /\ IsWhitespace(Head(s)) THEN TrimStart(Tail(s)) ELSE s

RECURSIVE TrimEnd(_)
TrimEnd(s) ==
    IF s # << >> /\ IsWhitespace(s[Len(s)])
    THEN TrimEnd(SubSeq(s, 1, Len(s) - 1))
    ELSE s

\* str::trim
Trim(s) == TrimEnd(TrimStart(s))

\* The characters the key source types, and the texts of a given length.
Chars == {"a", " "}

Texts(n) == UNION {[1..k -> Chars] : k \in 0..n}

\* ------------------------------------------------------------- environment
\* The names the session can meet in the file system.
\* PA is a name the key source can type; PB is a directory registered by an
\* earlier session.
PA == <<"a">>
PB == <<"b">>
HomeDir == <<"/", "h">>
CanonA == <<"/", "h", "/", "a">>
CanonB == <<"/", "h", "/", "b">>

\* One world: what Path::exists / is_dir / canonicalize and the git prober
\* answer for each name (any other name does not exist), and the editor the
\* environment variables name.  kind is the kind of the file the name
\* resolves to; canon is its canonical path; git is the prober's behaviour.
FsEntry(kind, canon, git) == [kind |-> kind, canon |-> canon, git |-> git]

World(a, b, env) == [fs |-> [p \in {PA, PB} |-> IF p = PA THEN a ELSE b],
                     env_editor |-> env]

\* Two distinct repositories; a is a symbolic link to b; a is a plain file;
\* neither exists.
TwoDirs == World(FsEntry("dir", CanonA, "ok"), FsEntry("dir", CanonB, "branch_err"), None)
Linked == World(FsEntry("dir", CanonB, "notgit"), FsEntry("dir", CanonB, "notgit"), Some(PA))
FileAndDir == World(FsEntry("file", CanonA, "notgit"), FsEntry("dir", CanonB, "diff_err"), None)
Gone == World(FsEntry("missing", PA, "notgit"), FsEntry("missing", PB, "notgit"), None)

Worlds == {TwoDirs, Linked, FileAndDir, Gone}

VARIABLES
    \* struct App
    config, entries, selected, mode, input_buffer, input_cursor, kill_buffer,
    pending_path, editing_index, status, should_quit,
    \* the configuration file save_config writes, and how often the write failed
    store, failed_saves,
    \* the environment (file system, git, environment variables)
    world,
    \* run_tui: position in the loop, last_tick.elapsed(), whether this
    \* iteration dispatched a key
    pc, since_tick, dispatched

app_vars == <<config, entries, selected, mode, input_buffer, input_cursor,
              kill_buffer, pending_path, editing_index, status, should_quit>>
loop_vars == <<pc, since_tick, dispatched>>
vars == <<app_vars, store, failed_saves, world, loop_vars>>

\* --------------------------------------------------------------- file system
\* What a path resolves to: a name of the world, or the canonical path of a
\* name that exists; anything else does not exist.
Resolve(p) ==
    IF p \in DOMAIN world.fs THEN world.fs[p]
    ELSE IF \E n \in DOMAIN world.fs :
                world.fs[n].kind # "missing" /\ world.fs[n].canon = p
         THEN world.fs[CHOOSE n \in DOMAIN world.fs :
                            world.fs[n].kind # "missing" /\ world.fs[n].canon = p]
         ELSE FsEntry("missing", p, "notgit")

FsKind(p) == Resolve(p).kind
\* Path::exists, Path::is_dir
Exists(p) == FsKind(p) # "missing"
IsDir(p) == FsKind(p) = "dir"

\* fn normalize: the canonical path, or the raw path when canonicalize fails
normalize(p) == IF Exists(p) THEN Resolve(p).canon ELSE p

IsPrefix(pre, s) == Len(pre) <= Len(s) /\ SubSeq(s, 1, Len(pre)) = pre

\* Path::strip_prefix(home): Some(rest) when home is a whole-component prefix
StripPrefix(p, home) ==
    IF p = home THEN Some(<< >>)
    ELSE IF IsPrefix(home \o <<"/">>, p)
         THEN Some(SubSeq(p, Len(home) + 2, Len(p)))
         ELSE None

\* fn expand_path: a leading ~/ is replaced by the home directory
expand_path(input) ==
    IF IsPrefix(<<"~", "/">>, input)
    THEN HomeDir \o <<"/">> \o SubSeq(input, 3, Len(input))
    ELSE input

HomeRelative(stripped) ==
    IF Unwrap(stripped) = << >> THEN <<"~">> ELSE <<"~", "/">> \o Unwrap(stripped)

\* fn display_path
display_path(p) ==
    IF IsSome(StripPrefix(p, HomeDir)) THEN HomeRelative(StripPrefix(p, HomeDir))
    ELSE IF Exists(p) /\ IsSome(StripPrefix(Resolve(p).canon, HomeDir))
         THEN HomeRelative(StripPrefix(Resolve(p).canon, HomeDir))
         ELSE p

\* fn entry_editor_fallback
entry_editor_fallback == world.env_editor

\* ------------------------------------------------------------------ struct App
\* enum Mode; the fields a variant does not carry hold a filler
ModeNormal == [tag |-> "Normal", flow |-> "-", step |-> "-", index |-> 0]
ModeInput(flow, step) == [tag |-> "Input", flow |-> flow, step |-> step, index |-> 0]
ModeConfirmDelete(index) ==
    [tag |-> "ConfirmDelete", flow |-> "-", step |-> "-", index |-> index]

\* struct EntryConfig, struct Entry, AppConfig
EntryConfig(path, editor) == [path |-> path, editor |-> editor]
from_config(c) == [config |-> c, branch |-> [tag |-> "Unknown", detail |-> ""]]
AppConfig(es, ed) == [entries |-> es, default_editor |-> ed]

\* The session as one value: the fields of App and the configuration file.
Self ==
    [config |-> config, entries |-> entries, selected |-> selected, mode |-> mode,
     input_buffer |-> input_buffer, input_cursor |-> input_cursor,
     kill_buffer |-> kill_buffer, pending_path |-> pending_path,
     editing_index |-> editing_index, status |-> status,
     should_quit |-> should_quit, store |-> store, failed_saves |-> failed_saves]

Install(a) ==
    /\ config' = a.config
    /\ entries' = a.entries
    /\ selected' = a.selected
    /\ mode' = a.mode
    /\ input_buffer' = a.input_buffer
    /\ input_cursor' = a.input_cursor
    /\ kill_buffer' = a.kill_buffer
    /\ pending_path' = a.pending_path
    /\ editing_index' = a.editing_index
    /\ status' = a.status
    /\ should_quit' = a.should_quit
    /\ store' = a.store
    /\ failed_saves' = a.failed_saves

\* Result<(), Error> of a method that also changes the session
Ok(a) == [app |-> a, err |-> None]
Err(a, msg, arg) == [app |-> a, err |-> Some([msg |-> msg, arg |-> arg])]

\* ------------------------------------------------------------ status message
Text(msg, arg) == [msg |-> msg, arg |-> arg]

set_status(a, kind, text) ==
    [a EXCEPT !.status = Some([text |-> text, kind |-> kind, age |-> 0])]

clear_status(a) == [a EXCEPT !.status = None]

\* created_at.elapsed() after d more milliseconds, saturated at STATUS_TIMEOUT
Aged(st, d) ==
    IF IsSome(st)
    THEN Some([Unwrap(st) EXCEPT !.age = Min(STATUS_TIMEOUT, @ + d)])
    ELSE st

\* maybe_clear_status without the test of the mode
maybe_clear_status_any_mode(a) ==
    IF IsSome(a.status) /\ Unwrap(a.status).age >= STATUS_TIMEOUT
    THEN [a EXCEPT !.status = None]
    ELSE a

maybe_clear_status(a) ==
    IF a.mode.tag # "Normal" THEN a
    ELSE IF IsSome(a.status) /\ Unwrap(a.status).age >= STATUS_TIMEOUT
         THEN [a EXCEPT !.status = None]
         ELSE a

\* -------------------------------------------------------------- branch status
Branch(tag, detail) == [tag |-> tag, detail |-> detail]

\* branch_state_for asking the git prober before looking at the path
branch_state_for_git_first(entry) ==
    IF ~Exists(entry.path) \/ Resolve(entry.path).git = "notgit"
    THEN Branch("NotGit", "")
    ELSE IF ~IsDir(entry.path) THEN Branch("Error", "not a dir")
    ELSE IF Resolve(entry.path).git = "branch_err"
         THEN Branch("Error", "git rev-parse failed")
         ELSE Branch("Ready", "main")

\* fn branch_state_for; git::diff_stat's failure is replaced by zero counts
branch_state_for(entry) ==
    IF ~Exists(entry.path) THEN Branch("Missing", "")
    ELSE IF ~IsDir(entry.path) THEN Branch("Error", "not a dir")
    ELSE IF Resolve(entry.path).git = "notgit" THEN Branch("NotGit", "")
    ELSE IF Resolve(entry.path).git = "branch_err"
         THEN Branch("Error", "git rev-parse failed")
         ELSE IF Resolve(entry.path).git = "diff_err"
              THEN Branch("Ready", "main")
              ELSE Branch("Ready", "main (+1 -1)")

\* fn branch_state_for: the calls it makes to the git prober, in order
git_calls_for(entry) ==
    IF ~Exists(entry.path) \/ ~IsDir(entry.path) THEN << >>
    ELSE IF Resolve(entry.path).git = "notgit" THEN <<"is_git_repo">>
    ELSE IF Resolve(entry.path).git = "branch_err"
         THEN <<"is_git_repo", "current_branch">>
         ELSE <<"is_git_repo", "current_branch", "diff_stat">>

sync_entries(a) ==
    [a EXCEPT !.entries =
        [i \in 1..Len(a.config.entries) |-> from_config(a.config.entries[i])]]

\* refresh_branches rebuilding the list from the configuration first
refresh_branches_resyncing(a) ==
    [a EXCEPT !.entries =
        [i \in 1..Len(a.config.entries) |->
            [config |-> a.config.entries[i],
             branch |-> branch_state_for(a.config.entries[i])]]]

refresh_branches(a) ==
    [a EXCEPT !.entries =
        [i \in 1..Len(a.entries) |->
            [a.entries[i] EXCEPT !.branch = branch_state_for(a.entries[i].config)]]]

\* config::save_config: the file holds the configuration, or the write fails
save_config(a, save_ok) ==
    IF save_ok THEN Ok([a EXCEPT !.store = a.config])
    ELSE Err([a EXCEPT !.failed_saves = @ + 1], "failed to write config", << >>)

\* ------------------------------------------------------------------ selection
\* move_selection_up stopping at the first entry
move_selection_up_nowrap(a) ==
    IF a.entries = << >> \/ a.selected = 0 THEN a
    ELSE [a EXCEPT !.selected = a.selected - 1]

move_selection_up(a) ==
    IF a.entries = << >> THEN a
    ELSE IF a.selected = 0 THEN [a EXCEPT !.selected = Len(a.entries) - 1]
         ELSE [a EXCEPT !.selected = a.selected - 1]

\* move_selection_down without the wrap to the first entry
move_selection_down_nowrap(a) ==
    IF a.entries = << >> THEN a ELSE [a EXCEPT !.selected = a.selected + 1]

move_selection_down(a) ==
    IF a.entries = << >> THEN a
    ELSE [a EXCEPT !.selected = (a.selected + 1) % Len(a.entries)]

\* Iterator::position(|e| normalize(e) == normalize(path)) over a list of
\* paths: the 0-based index of the first path with the same canonical path
PositionOfPath(paths, path) ==
    LET hits == {i \in 1..Len(paths) : normalize(paths[i]) = normalize(path)}
    IN  IF hits = {} THEN None
        ELSE Some((CHOOSE i \in hits : \A j \in hits : i <= j) - 1)

ConfigPaths(es) == [i \in 1..Len(es) |-> es[i].path]
EntryPaths(es) == [i \in 1..Len(es) |-> es[i].config.path]

\* ---------------------------------------------------------------- line editor
buffer_len(a) == Len(a.input_buffer)

\* fn byte_index_at: the offset of character char_idx, or the length past the
\* end (offsets are counted in characters: every offset the editor computes
\* falls on a character boundary)
byte_index_at(s, char_idx) == IF char_idx < Len(s) THEN char_idx ELSE Len(s)

\* String::drain(start..end) leaves s without [start, end); Drained is the part
Drain(s, start, end) == SubSeq(s, 1, start) \o SubSeq(s, end + 1, Len(s))
Drained(s, start, end) == SubSeq(s, start + 1, end)

InsertAt(s, at, text) == SubSeq(s, 1, at) \o text \o SubSeq(s, at + 1, Len(s))

cursor_to_start(a) == [a EXCEPT !.input_cursor = 0]

cursor_to_end(a) == [a EXCEPT !.input_cursor = buffer_len(a)]

move_cursor_left(a) ==
    IF a.input_cursor > 0 THEN [a EXCEPT !.input_cursor = @ - 1] ELSE a

\* move_cursor_right without the test against the buffer length
move_cursor_right_unchecked(a) == [a EXCEPT !.input_cursor = @ + 1]

move_cursor_right(a) ==
    IF a.input_cursor < buffer_len(a) THEN [a EXCEPT !.input_cursor = @ + 1] ELSE a

RECURSIVE SkipLeft(_, _, _)
SkipLeft(chars, idx, white) ==
    IF idx > 0 /\ (IsWhitespace(chars[idx]) = white)
    THEN SkipLeft(chars, idx - 1, white)
    ELSE idx

RECURSIVE SkipRight(_, _, _)
SkipRight(chars, idx, white) ==
    IF idx < Len(chars) /\ (IsWhitespace(chars[idx + 1]) = white)
    THEN SkipRight(chars, idx + 1, white)
    ELSE idx

\* word_left_index skipping the word only, not the whitespace before the cursor
word_left_index_word_only(a) ==
    SkipLeft(a.input_buffer, Min(a.input_cursor, buffer_len(a)), FALSE)

word_left_index(a) ==
    SkipLeft(a.input_buffer,
             SkipLeft(a.input_buffer, Min(a.input_cursor, buffer_len(a)), TRUE),
             FALSE)

word_right_index(a) ==
    SkipRight(a.input_buffer,
              SkipRight(a.input_buffer, Min(a.input_cursor, buffer_len(a)), TRUE),
              FALSE)

move_word_left(a) == [a EXCEPT !.input_cursor = word_left_index(a)]

\* move_word_right stepping over one character only
move_word_right_one_char(a) ==
    [a EXCEPT !.input_cursor = Min(@ + 1, buffer_len(a))]

move_word_right(a) == [a EXCEPT !.input_cursor = word_right_index(a)]

insert_char(a, ch) ==
    [a EXCEPT !.input_buffer =
                  InsertAt(@, byte_index_at(a.input_buffer, a.input_cursor), <<ch>>),
              !.input_cursor = @ + 1]

\* insert_str_at_cursor leaving the cursor before the inserted text
insert_str_at_cursor_no_advance(a, text) ==
    IF text = << >> THEN a
    ELSE [a EXCEPT !.input_buffer =
                       InsertAt(@, byte_index_at(a.input_buffer, a.input_cursor), text)]

insert_str_at_cursor(a, text) ==
    IF text = << >> THEN a
    ELSE [a EXCEPT !.input_buffer =
                       InsertAt(@, byte_index_at(a.input_buffer, a.input_cursor), text),
                   !.input_cursor = @ + Len(text)]

\* delete_prev_char keeping the deleted character in the kill-ring
delete_prev_char_killing(a) ==
    IF a.input_cursor = 0 THEN a
    ELSE [a EXCEPT !.input_buffer = Drain(@, a.input_cursor - 1, a.input_cursor),
                   !.kill_buffer = Drained(a.input_buffer, a.input_cursor - 1,
                                           a.input_cursor),
                   !.input_cursor = @ - 1]

delete_prev_char(a) ==
    IF a.input_cursor = 0 THEN a
    ELSE [a EXCEPT !.input_buffer =
                       Drain(@, byte_index_at(a.input_buffer, a.input_cursor - 1),
                                byte_index_at(a.input_buffer, a.input_cursor)),
                   !.input_cursor = @ - 1]

delete_char(a) ==
    IF a.input_cursor >= buffer_len(a) THEN a
    ELSE [a EXCEPT !.input_buffer =
                       Drain(@, byte_index_at(a.input_buffer, a.input_cursor),
                                byte_index_at(a.input_buffer, a.input_cursor + 1))]

\* fn remove_range: the session without [start, end) and the text removed
remove_range(a, start, end) ==
    IF start >= end THEN [app |-> a, removed |-> << >>]
    ELSE [app |-> [a EXCEPT !.input_buffer =
                       Drain(@, byte_index_at(a.input_buffer, start),
                                byte_index_at(a.input_buffer, end))],
          removed |-> Drained(a.input_buffer,
                              byte_index_at(a.input_buffer, start),
                              byte_index_at(a.input_buffer, end))]

kill_prev_word(a) ==
    LET new_cursor == word_left_index(a)
        r == remove_range(a, new_cursor, a.input_cursor)
    IN  IF r.removed # << >>
        THEN [r.app EXCEPT !.kill_buffer = r.removed, !.input_cursor = new_cursor]
        ELSE r.app

kill_word_forward(a) ==
    LET r == remove_range(a, a.input_cursor, word_right_index(a))
    IN  IF r.removed # << >> THEN [r.app EXCEPT !.kill_buffer = r.removed] ELSE r.app

kill_to_start(a) ==
    LET r == remove_range(a, 0, a.input_cursor)
    IN  IF r.removed # << >>
        THEN [r.app EXCEPT !.kill_buffer = r.removed, !.input_cursor = 0]
        ELSE r.app

\* kill_to_end appending the removed text to the previous kill
kill_to_end_appending(a) ==
    LET r == remove_range(a, a.input_cursor, buffer_len(a))
    IN  IF r.removed # << >>
        THEN [r.app EXCEPT !.kill_buffer = @ \o r.removed]
        ELSE r.app

kill_to_end(a) ==
    LET r == remove_range(a, a.input_cursor, buffer_len(a))
    IN  IF r.removed # << >> THEN [r.app EXCEPT !.kill_buffer = r.removed] ELSE r.app

yank_kill_buffer(a) ==
    IF a.kill_buffer = << >> THEN a ELSE insert_str_at_cursor(a, a.kill_buffer)

\* ---------------------------------------------------------------------- flows
start_add_flow(a) ==
    set_status([a EXCEPT !.mode = ModeInput("Add", "Directory"),
                         !.input_buffer = << >>,
                         !.input_cursor = 0,
                         !.kill_buffer = << >>,
                         !.pending_path = None,
                         !.editing_index = None],
               "Info", Text("Enter directory path", << >>))

start_edit_flow(a) ==
    IF a.entries = << >> THEN a
    ELSE LET idx == Min(a.selected, Len(a.entries) - 1)
             entry == a.entries[idx + 1].config
         IN  set_status([a EXCEPT !.mode = ModeInput("Edit", "Directory"),
                                  !.input_buffer = entry.path,
                                  !.input_cursor = Len(entry.path),
                                  !.kill_buffer = << >>,
                                  !.pending_path = Some(entry.path),
                                  !.editing_index = Some(idx)],
                        "Info", Text("Edit directory path and press enter", << >>))

\* request_remove asking about the first entry whatever the selection
request_remove_first(a) ==
    IF a.entries = << >> THEN a
    ELSE set_status([a EXCEPT !.mode = ModeConfirmDelete(0)],
                    "Info",
                    Text("Press Enter to remove or Esc to cancel",
                         display_path(a.entries[1].config.path)))

request_remove(a) ==
    IF a.entries = << >> THEN a
    ELSE LET idx == Min(a.selected, Len(a.entries) - 1)
         IN  set_status([a EXCEPT !.mode = ModeConfirmDelete(idx)],
                        "Info",
                        Text("Press Enter to remove or Esc to cancel",
                             display_path(a.entries[idx + 1].config.path)))

\* cancel_flow keeping the edit buffer and the cursor
cancel_flow_keep_buffer(a) ==
    [a EXCEPT !.mode = ModeNormal,
              !.pending_path = None,
              !.editing_index = None,
              !.kill_buffer = << >>]

\* cancel_flow keeping the kill-ring
cancel_flow_keep_kill(a) ==
    [a EXCEPT !.mode = ModeNormal,
              !.input_buffer = << >>,
              !.input_cursor = 0,
              !.pending_path = None,
              !.editing_index = None]

cancel_flow(a) ==
    [a EXCEPT !.mode = ModeNormal,
              !.input_buffer = << >>,
              !.input_cursor = 0,
              !.pending_path = None,
              !.editing_index = None,
              !.kill_buffer = << >>]

\* editor_prefill passing over the entry's own editor command
editor_prefill_no_override(a, entry) ==
    IF IsSome(a.config.default_editor) THEN Unwrap(a.config.default_editor)
    ELSE IF IsSome(entry_editor_fallback) THEN Unwrap(entry_editor_fallback)
    ELSE << >>

editor_prefill(a, entry) ==
    IF IsSome(entry) /\ IsSome(Unwrap(entry).editor) THEN Unwrap(Unwrap(entry).editor)
    ELSE IF IsSome(a.config.default_editor) THEN Unwrap(a.config.default_editor)
    ELSE IF IsSome(entry_editor_fallback) THEN Unwrap(entry_editor_fallback)
    ELSE << >>

\* Vec::get
Get(v, idx) == IF idx < Len(v) THEN Some(v[idx + 1]) ELSE None

complete_directory_step(a, flow) ==
    LET raw_path == Trim(a.input_buffer)
        path == expand_path(raw_path)
        prefill == IF flow = "Add" THEN editor_prefill(a, None)
                   ELSE editor_prefill(a,
                            IF IsSome(a.editing_index)
                            THEN Get(a.config.entries, Unwrap(a.editing_index))
                            ELSE None)
    IN  IF raw_path = << >> THEN Err(a, "directory path cannot be empty", << >>)
        ELSE IF ~Exists(path) THEN Err(a, "does not exist", display_path(path))
        ELSE IF ~IsDir(path) THEN Err(a, "is not a directory", display_path(path))
        ELSE Ok(set_status([a EXCEPT !.pending_path = Some(path),
                                     !.mode = ModeInput(flow, "Editor"),
                                     !.input_buffer = prefill,
                                     !.input_cursor = Len(prefill)],
                           "Info",
                           IF flow = "Add"
                           THEN Text("Set editor command (enter to accept current value)", << >>)
                           ELSE Text("Edit editor command (enter to accept current value)", << >>)))

\* -------------------------------------------------------------------- commits
\* save_entry pushing the entry whether or not its path is registered
PutEntryAppending(es, entry) == Append(es, entry)

\* save_entry, lines 746-760: replace the first entry with the same
\* canonical path, or append
PutEntry(es, entry) ==
    LET found == PositionOfPath(ConfigPaths(es), entry.path)
    IN  IF IsSome(found) THEN [es EXCEPT ![Unwrap(found) + 1] = entry]
        ELSE Append(es, entry)

\* the entry list left as it was after a successful save_config
NotResynced(saved) == saved.app

\* the entry list rebuilt after a successful save_config and not refreshed
SyncedUnrefreshed(saved) == sync_entries(saved.app)

\* sync_entries and refresh_branches after a successful save_config
Resynced(saved) == refresh_branches(sync_entries(saved.app))

\* save_entry, lines 763-773: the selection goes to the saved path
save_entry_select(a2, idx) ==
    IF a2.entries # << >> /\ IsSome(idx)
    THEN Ok([a2 EXCEPT !.selected = Unwrap(idx)])
    ELSE Ok(a2)

save_entry_synced(a2, path) ==
    save_entry_select(a2, PositionOfPath(EntryPaths(a2.entries), path))

\* save_entry, lines 760-773: after save_config
save_entry_saved(saved, path) ==
    IF IsSome(saved.err) THEN saved
    ELSE save_entry_synced(Resynced(saved), path)

save_entry(a, path, editor, save_ok) ==
    save_entry_saved(
        save_config([a EXCEPT !.config.entries = PutEntry(@, EntryConfig(path, editor))],
                    save_ok),
        path)

\* update_entry, lines 794-809: the selection goes to the updated path
update_entry_select(a2, idx, pos) ==
    IF a2.entries = << >> THEN Ok([a2 EXCEPT !.selected = 0])
    ELSE IF IsSome(pos) THEN Ok([a2 EXCEPT !.selected = Unwrap(pos)])
    ELSE IF idx < Len(a2.entries) THEN Ok([a2 EXCEPT !.selected = idx])
    ELSE Ok([a2 EXCEPT !.selected = Len(a2.entries) - 1])

update_entry_synced(a2, idx, path) ==
    update_entry_select(a2, idx, PositionOfPath(EntryPaths(a2.entries), path))

\* update_entry, lines 791-809: after save_config
update_entry_saved(saved, idx, path) ==
    IF IsSome(saved.err) THEN saved
    ELSE update_entry_synced(Resynced(saved), idx, path)

\* update_entry taking the old entry out and pushing the new one at the end
update_entry_moving(a, idx, path, editor, save_ok) ==
    IF idx >= Len(a.config.entries) THEN Err(a, "invalid entry index", << >>)
    ELSE update_entry_saved(
             save_config([a EXCEPT !.config.default_editor =
                                       IF IsSome(editor) THEN editor ELSE @,
                                   !.config.entries =
                                       Append(SubSeq(@, 1, idx) \o SubSeq(@, idx + 2, Len(@)),
                                              EntryConfig(path, editor))],
                         save_ok),
             idx, path)

update_entry(a, idx, path, editor, save_ok) ==
    IF idx >= Len(a.config.entries) THEN Err(a, "invalid entry index", << >>)
    ELSE update_entry_saved(
             save_config([a EXCEPT !.config.default_editor =
                                       IF IsSome(editor) THEN editor ELSE @,
                                   !.config.entries[idx + 1] = EntryConfig(path, editor)],
                         save_ok),
             idx, path)

RemoveAt(v, idx) == SubSeq(v, 1, idx) \o SubSeq(v, idx + 2, Len(v))

\* remove_entry: the result carries the removed path in err's place on success
\* remove_entry, lines 823-827: the selection is pulled back into the list
remove_entry_clamp(a2) ==
    IF a2.entries = << >> THEN [a2 EXCEPT !.selected = 0]
    ELSE IF a2.selected >= Len(a2.entries)
         THEN [a2 EXCEPT !.selected = Len(a2.entries) - 1]
         ELSE a2

\* remove_entry, lines 820-829: after save_config
remove_entry_saved(saved, path) ==
    IF IsSome(saved.err)
    THEN [app |-> saved.app, err |-> saved.err, path |-> << >>]
    ELSE [app |-> remove_entry_clamp(Resynced(saved)), err |-> None, path |-> path]

remove_entry(a, idx, save_ok) ==
    IF idx >= Len(a.config.entries)
    THEN [app |-> a, err |-> Some(Text("invalid entry index", << >>)), path |-> << >>]
    ELSE remove_entry_saved(
             save_config([a EXCEPT !.config.entries = RemoveAt(@, idx)], save_ok),
             a.config.entries[idx + 1].path)

\* every text, the empty one included, taken as an editor command
EditorOfAnyText(editor_string) == Some(editor_string)

\* complete_editor_step, lines 591-596: the trimmed text as an editor
EditorOf(editor_string) ==
    IF editor_string = << >> THEN None ELSE Some(editor_string)

\* complete_editor_step, lines 604-622: the commit's result reported
complete_editor_step_done(res, flow, path) ==
    IF IsSome(res.err) THEN res
    ELSE Ok([set_status(res.app, "Info",
                        Text(IF flow = "Add" THEN "Registered" ELSE "Updated",
                             display_path(path)))
             EXCEPT !.mode = ModeNormal,
                    !.input_buffer = << >>,
                    !.input_cursor = 0,
                    !.pending_path = None,
                    !.editing_index = None])

\* complete_editor_step, lines 601-615: the commit of the flow
complete_editor_step_commit(a1, flow, path, editor, save_ok) ==
    complete_editor_step_done(
        IF flow = "Add" THEN save_entry(a1, path, editor, save_ok)
        ELSE IF ~IsSome(a1.editing_index)
             THEN Err(a1, "no entry selected to edit", << >>)
             ELSE update_entry(a1, Unwrap(a1.editing_index), path, editor, save_ok),
        flow, path)

\* complete_editor_step, lines 597-599: the typed editor becomes the default
complete_editor_step_with(a, flow, editor, save_ok) ==
    complete_editor_step_commit(
        IF IsSome(editor) THEN [a EXCEPT !.config.default_editor = editor] ELSE a,
        flow, Unwrap(a.pending_path), editor, save_ok)

complete_editor_step(a, flow, save_ok) ==
    IF ~IsSome(a.pending_path) THEN Err(a, "no directory captured", << >>)
    ELSE complete_editor_step_with(a, flow, EditorOf(Trim(a.input_buffer)), save_ok)

\* submit_flow_step abandoning the flow when the step fails
submit_flow_step_reset(a, flow, step, save_ok) ==
    LET result == IF step = "Directory" THEN complete_directory_step(a, flow)
                  ELSE complete_editor_step(a, flow, save_ok)
    IN  IF IsSome(result.err)
        THEN set_status(cancel_flow(result.app), "Error", Unwrap(result.err))
        ELSE result.app

\* submit_flow_step, lines 630-632: an error becomes the status
report_error(result) ==
    IF IsSome(result.err)
    THEN set_status(result.app, "Error", Unwrap(result.err))
    ELSE result.app

submit_flow_step(a, flow, step, save_ok) ==
    report_error(IF step = "Directory" THEN complete_directory_step(a, flow)
                 ELSE complete_editor_step(a, flow, save_ok))

\* --------------------------------------------------------------------- launch
\* fn launch_editor: the error, if any (spawn_ok: whether the process starts)
launch_editor(entry, spawn_ok) ==
    LET command_string == IF IsSome(entry.editor) THEN entry.editor
                          ELSE entry_editor_fallback
    IN  IF ~IsSome(command_string) THEN Some(Text("no editor set", << >>))
        ELSE IF Trim(Unwrap(command_string)) = << >>
             THEN Some(Text("editor command is empty", << >>))
        ELSE IF ~spawn_ok
             THEN Some(Text("failed to launch editor", display_path(entry.path)))
        ELSE None

\* launch_index reporting "Opened" whatever launch_editor returned
launch_index_always_opened(a, idx, spawn_ok) ==
    IF idx >= Len(a.entries) THEN a
    ELSE set_status(a, "Info",
                    Text("Opened", display_path(a.entries[idx + 1].config.path)))

launch_index(a, idx, spawn_ok) ==
    IF idx >= Len(a.entries) THEN a
    ELSE LET err == launch_editor(a.entries[idx + 1].config, spawn_ok)
         IN  IF IsSome(err) THEN set_status(a, "Error", Unwrap(err))
             ELSE set_status(a, "Info",
                             Text("Opened", display_path(a.entries[idx + 1].config.path)))

\* --------------------------------------------------------------- key dispatch
\* A KeyEvent: its KeyCode (code, and ch for KeyCode::Char) and KeyModifiers.
Key(code, ch, mods) == [code |-> code, ch |-> ch, mods |-> mods]
CharKey(ch, mods) == Key("Char", ch, mods)
IsChar(key, ch) == key.code = "Char" /\ key.ch = ch

Handled(a) == [app |-> a, handled |-> TRUE]
NotHandled(a) == [app |-> a, handled |-> FALSE]

\* '1'..='9', and c as u8 - b'1'
Digits == <<"1", "2", "3", "4", "5", "6", "7", "8", "9">>
IsDigit(key) == key.code = "Char" /\ \E i \in 1..Len(Digits) : Digits[i] = key.ch
DigitIndex(key) == (CHOOSE i \in 1..Len(Digits) : Digits[i] = key.ch) - 1

handle_ctrl_input(a, flow, step, key, save_ok) ==
    IF IsChar(key, "a") \/ key.code = "Home" THEN Handled(cursor_to_start(a))
    ELSE IF IsChar(key, "e") \/ key.code = "End" THEN Handled(cursor_to_end(a))
    ELSE IF IsChar(key, "b") THEN Handled(move_cursor_left(a))
    ELSE IF IsChar(key, "f") THEN Handled(move_cursor_right(a))
    ELSE IF IsChar(key, "d") THEN Handled(delete_char(a))
    ELSE IF IsChar(key, "h") THEN Handled(delete_prev_char(a))
    ELSE IF IsChar(key, "k") THEN Handled(kill_to_end(a))
    ELSE IF IsChar(key, "u") THEN Handled(kill_to_start(a))
    ELSE IF IsChar(key, "w") \/ key.code = "Backspace" THEN Handled(kill_prev_word(a))
    ELSE IF IsChar(key, "y") THEN Handled(yank_kill_buffer(a))
    ELSE IF IsChar(key, "g") THEN Handled(cancel_flow(a))
    ELSE IF IsChar(key, "j") \/ IsChar(key, "m") \/ key.code = "Enter"
         THEN Handled(submit_flow_step(a, flow, step, save_ok))
    ELSE IF key.code = "Left" THEN Handled(move_word_left(a))
    ELSE IF key.code = "Right" THEN Handled(move_word_right(a))
    ELSE IF key.code = "Delete" THEN Handled(kill_word_forward(a))
    ELSE NotHandled(a)

handle_alt_input(a, key) ==
    IF IsChar(key, "b") \/ key.code = "Left" THEN Handled(move_word_left(a))
    ELSE IF IsChar(key, "f") \/ key.code = "Right" THEN Handled(move_word_right(a))
    ELSE IF IsChar(key, "d") \/ key.code = "Delete" THEN Handled(kill_word_forward(a))
    ELSE IF key.code = "Backspace" THEN Handled(kill_prev_word(a))
    ELSE NotHandled(a)

handle_super_input(a, key) ==
    IF key.code = "Backspace" THEN Handled(kill_to_start(a)) ELSE NotHandled(a)

\* handle_input_key, lines 451-466: the plain bindings
handle_plain_input(a, flow, step, key, save_ok) ==
    IF key.code = "Esc" THEN cancel_flow(a)
    ELSE IF key.code = "Enter" THEN submit_flow_step(a, flow, step, save_ok)
    ELSE IF key.code = "Backspace" THEN delete_prev_char(a)
    ELSE IF key.code = "Delete" THEN delete_char(a)
    ELSE IF key.code = "Left" THEN move_cursor_left(a)
    ELSE IF key.code = "Right" THEN move_cursor_right(a)
    ELSE IF key.code = "Home" THEN cursor_to_start(a)
    ELSE IF key.code = "End" THEN cursor_to_end(a)
    ELSE IF key.code = "Char" /\ (key.mods = {} \/ key.mods = {"SHIFT"})
         THEN insert_char(a, key.ch)
    ELSE a

\* `if self.handle_..._input(..) { return; }`
OrElse(r, otherwise) == IF r.handled THEN r.app ELSE otherwise

\* handle_input_key asking the alt bindings before the control bindings
handle_input_key_alt_first(a, flow, step, key, save_ok) ==
    OrElse(IF "ALT" \in key.mods
           THEN handle_alt_input(a, key)
           ELSE NotHandled(a),
      OrElse(IF "CONTROL" \in key.mods
             THEN handle_ctrl_input(a, flow, step, key, save_ok)
             ELSE NotHandled(a),
        OrElse(IF "SUPER" \in key.mods \/ "META" \in key.mods
               THEN handle_super_input(a, key)
               ELSE NotHandled(a),
               handle_plain_input(a, flow, step, key, save_ok))))

handle_input_key(a, flow, step, key, save_ok) ==
    OrElse(IF "CONTROL" \in key.mods
           THEN handle_ctrl_input(a, flow, step, key, save_ok)
           ELSE NotHandled(a),
      OrElse(IF "SUPER" \in key.mods \/ "META" \in key.mods
             THEN handle_super_input(a, key)
             ELSE NotHandled(a),
        OrElse(IF "ALT" \in key.mods
               THEN handle_alt_input(a, key)
               ELSE NotHandled(a),
               handle_plain_input(a, flow, step, key, save_ok))))

\* handle_confirm_delete leaving the confirmation prompt in the status on Esc
handle_confirm_delete_keep_status(a, index, key, save_ok) ==
    IF key.code = "Esc" THEN [a EXCEPT !.mode = ModeNormal]
    ELSE IF key.code = "Enter"
         THEN LET r == remove_entry(a, index, save_ok)
              IN  [(IF IsSome(r.err)
                    THEN set_status(r.app, "Error", Unwrap(r.err))
                    ELSE set_status(r.app, "Info", Text("Removed", display_path(r.path))))
                   EXCEPT !.mode = ModeNormal]
         ELSE a

handle_confirm_delete(a, index, key, save_ok) ==
    IF key.code = "Esc" THEN clear_status([a EXCEPT !.mode = ModeNormal])
    ELSE IF key.code = "Enter"
         THEN LET r == remove_entry(a, index, save_ok)
              IN  [(IF IsSome(r.err)
                    THEN set_status(r.app, "Error", Unwrap(r.err))
                    ELSE set_status(r.app, "Info", Text("Removed", display_path(r.path))))
                   EXCEPT !.mode = ModeNormal]
         ELSE a

handle_normal_key(a, key, spawn_ok) ==
    IF "CONTROL" \in key.mods /\ IsChar(key, "n") THEN move_selection_down(a)
    ELSE IF "CONTROL" \in key.mods /\ IsChar(key, "p") THEN move_selection_up(a)
    ELSE IF IsChar(key, "q") \/ key.code = "Esc" THEN [a EXCEPT !.should_quit = TRUE]
    ELSE IF IsChar(key, "r") THEN refresh_branches(a)
    ELSE IF IsChar(key, "d") THEN request_remove(a)
    ELSE IF IsChar(key, "a") THEN start_add_flow(a)
    ELSE IF IsChar(key, "e") THEN start_edit_flow(a)
    ELSE IF IsChar(key, "j") THEN move_selection_down(a)
    ELSE IF IsChar(key, "k") THEN move_selection_up(a)
    ELSE IF IsDigit(key)
         THEN IF DigitIndex(key) < Len(a.entries)
              THEN launch_index([a EXCEPT !.selected = DigitIndex(key)],
                                DigitIndex(key), spawn_ok)
              ELSE a
    ELSE IF key.code = "Enter" THEN launch_index(a, a.selected, spawn_ok)
    ELSE IF key.code = "Up" THEN move_selection_up(a)
    ELSE IF key.code = "Down" THEN move_selection_down(a)
    ELSE a

\* The outcomes of the collaborators a key handler may call: whether
\* save_config's write and the editor's spawn succeed.
Outcomes == [save_ok : BOOLEAN, spawn_ok : BOOLEAN]

AllOk == [save_ok |-> TRUE, spawn_ok |-> TRUE]

IsInterrupt(key) == IsChar(key, "c") /\ "CONTROL" \in key.mods

\* handle_key looking for the interrupt only after the mode's own handling,
\* in Normal mode
handle_key_late_interrupt(a, key, io) ==
    IF a.mode.tag = "Normal"
    THEN IF IsInterrupt(key) THEN [a EXCEPT !.should_quit = TRUE]
         ELSE handle_normal_key(a, key, io.spawn_ok)
    ELSE IF a.mode.tag = "Input"
         THEN handle_input_key(a, a.mode.flow, a.mode.step, key, io.save_ok)
         ELSE handle_confirm_delete(a, a.mode.index, key, io.save_ok)

handle_key(a, key, io) ==
    IF IsInterrupt(key) THEN [a EXCEPT !.should_quit = TRUE]
    ELSE IF a.mode.tag = "Normal" THEN handle_normal_key(a, key, io.spawn_ok)
    ELSE IF a.mode.tag = "Input"
         THEN handle_input_key(a, a.mode.flow, a.mode.step, key, io.save_ok)
         ELSE handle_confirm_delete(a, a.mode.index, key, io.save_ok)

\* ------------------------------------------------------------- initial states
\* The configuration files App::new may load.
InitStores ==
    { AppConfig(<< >>, None),
      AppConfig(<<EntryConfig(PB, None)>>, None),
      AppConfig(<<EntryConfig(PB, None), EntryConfig(PA, Some(PA))>>, Some(PA)),
      AppConfig(<<EntryConfig(PA, Some(PA))>>, None) }

\* App::new, and run_tui before its first statement
Init ==
    /\ world \in Worlds
    /\ store \in InitStores
    /\ failed_saves = 0
    /\ config = store
    /\ entries = [i \in 1..Len(store.entries) |-> from_config(store.entries[i])]
    /\ selected = 0
    /\ mode = ModeNormal
    /\ input_buffer = << >>
    /\ input_cursor = 0
    /\ kill_buffer = << >>
    /\ pending_path = None
    /\ editing_index = None
    /\ status = None
    /\ should_quit = FALSE
    /\ pc = "start"
    /\ since_tick = 0
    /\ dispatched = FALSE

\* ----------------------------------------------------------------- key source
NoMods == {}
CtrlC == CharKey("c", {"CONTROL"})

NormalKeys ==
    {CharKey(c, NoMods) : c \in {"q", "r", "d", "a", "e", "j", "k", "1", "2", "3", "9", "x"}}
    \cup {Key("Esc", "", NoMods), Key("Enter", "", NoMods),
          Key("Up", "", NoMods), Key("Down", "", NoMods),
          CharKey("n", {"CONTROL"}), CharKey("p", {"CONTROL"})}

InputKeys ==
    {CharKey(c, NoMods) : c \in Chars}
    \cup {Key("Esc", "", NoMods), Key("Enter", "", NoMods), Key("Backspace", "", NoMods),
          CharKey("g", {"CONTROL"})}

ConfirmKeys == {Key("Esc", "", NoMods), Key("Enter", "", NoMods), CharKey("x", NoMods)}

\* The key source and the storage stay within the bounds: the edit buffer is
\* not grown past MaxLen, the registry not past MaxEntries, and the write
\* fails at most MaxSaveFailures times.
WithinBounds(a) ==
    /\ Len(a.input_buffer) <= MaxLen
    /\ Len(a.config.entries) <= MaxEntries
    /\ a.failed_saves <= MaxSaveFailures

\* ------------------------------------------------- the session under key events
\* App::handle_key on one key of the given set
Accept(a) == WithinBounds(a) /\ Install(a)

Dispatch(keys) ==
    \E key \in keys, io \in Outcomes : Accept(handle_key(Self, key, io))

KeyInterrupt ==
    /\ ~should_quit
    /\ Dispatch({CtrlC})
    /\ UNCHANGED <<world, loop_vars>>

KeyNormal ==
    /\ ~should_quit
    /\ mode.tag = "Normal"
    /\ Dispatch(NormalKeys)
    /\ UNCHANGED <<world, loop_vars>>

KeyInput ==
    /\ ~should_quit
    /\ mode.tag = "Input"
    /\ Dispatch(InputKeys)
    /\ UNCHANGED <<world, loop_vars>>

KeyConfirmDelete ==
    /\ ~should_quit
    /\ mode.tag = "ConfirmDelete"
    /\ Dispatch(ConfirmKeys)
    /\ UNCHANGED <<world, loop_vars>>

\* App::refresh_branches as run_tui calls it between key events
Refresh ==
    /\ ~should_quit
    /\ Install(refresh_branches(Self))
    /\ UNCHANGED <<world, loop_vars>>

Next == KeyInterrupt \/ KeyNormal \/ KeyInput \/ KeyConfirmDelete \/ Refresh

Spec == Init /\ [][Next]_vars

\* ------------------------------------- the session in a changing file system
\* Between two steps of the session directories are created, removed or
\* replaced, and repositories break; the environment variables of the process
\* stay as they are.
WorldChange ==
    /\ ~should_quit
    /\ \E w \in Worlds :
        /\ w # world
        /\ w.env_editor = world.env_editor
        /\ world' = w
    /\ UNCHANGED <<app_vars, store, failed_saves, loop_vars>>

NextRefresh == Next \/ WorldChange

SpecRefresh == Init /\ [][NextRefresh]_vars

\* ------------------------------------------------------------------- run_tui
\* How long an input wait, a render or a refresh may take (milliseconds).
Waits == {0, 250, 500}
Delays == {0, 250, 500}

\* d milliseconds pass: every Instant's elapsed() grows by d
Pass(a, d) == [a EXCEPT !.status = Aged(@, d)]
Elapsed(since, d) == Min(2 * BRANCH_REFRESH, since + d)

\* the input wait always a whole tick interval
TimeoutWholeInterval == BRANCH_REFRESH

\* BRANCH_REFRESH.checked_sub(last_tick.elapsed()).unwrap_or(0)
Timeout == IF since_tick <= BRANCH_REFRESH THEN BRANCH_REFRESH - since_tick ELSE 0

\* the loop going on to the tick test after a key that set the quit flag
AfterDispatchNoBreak(a) == "tick"

\* lines 170-172: the loop ends when the dispatched key set the quit flag
AfterDispatch(a) == IF a.should_quit THEN "done" ELSE "tick"

\* The keys the key source presses while the loop is observed.
LoopKeys ==
    IF mode.tag = "Normal"
    THEN {CharKey(c, NoMods) : c \in {"q", "a", "e", "d", "j", "x"}}
         \cup {Key("Enter", "", NoMods), CtrlC}
    ELSE {Key("Esc", "", NoMods), Key("Enter", "", NoMods), CharKey("a", NoMods),
          CharKey("x", {"ALT"}), CtrlC}

\* lines 152-157: the first refresh and last_tick
Startup ==
    /\ pc = "start"
    /\ \E d \in Delays : Install(Pass(refresh_branches(Self), d))
    /\ since_tick' = 0
    /\ pc' = "top"
    /\ UNCHANGED <<world, dispatched>>

\* lines 160-161: maybe_clear_status, then the render (which only reads)
LoopTop ==
    /\ pc = "top"
    /\ \E d \in Delays :
        /\ Install(Pass(maybe_clear_status(Self), d))
        /\ since_tick' = Elapsed(since_tick, d)
    /\ pc' = "poll"
    /\ UNCHANGED <<world, dispatched>>

\* lines 169-172: the session after handle_key, and where the loop goes
AcceptInLoop(a) == Accept(a) /\ pc' = AfterDispatch(a)

\* lines 163-174 when event::poll delivers a key within the timeout
PollKey ==
    /\ pc = "poll"
    /\ \E wait \in Waits, key \in LoopKeys, io \in Outcomes :
        /\ wait <= Timeout
        /\ AcceptInLoop(handle_key(Pass(Self, wait), key, io))
        /\ since_tick' = Elapsed(since_tick, wait)
    /\ dispatched' = TRUE
    /\ UNCHANGED world

\* lines 163-174 when the wait ends with no key: the timeout expires, or an
\* event that is not a key arrives earlier
PollIdle ==
    /\ pc = "poll"
    /\ \E wait \in Waits :
        /\ wait <= Timeout
        /\ Install(Pass(Self, wait))
        /\ since_tick' = Elapsed(since_tick, wait)
    /\ pc' = "tick"
    /\ dispatched' = FALSE
    /\ UNCHANGED world

\* the tick test skipped in an iteration that dispatched a key
TickDueWhenIdle == since_tick >= BRANCH_REFRESH /\ ~dispatched

\* line 176: last_tick.elapsed() >= BRANCH_REFRESH
TickDue == since_tick >= BRANCH_REFRESH

Tick ==
    /\ pc = "tick"
    /\ IF TickDue
       THEN /\ \E d \in Delays : Install(Pass(refresh_branches(Self), d))
            /\ since_tick' = 0
       ELSE UNCHANGED <<app_vars, store, failed_saves, since_tick>>
    /\ pc' = "top"
    /\ dispatched' = FALSE
    /\ UNCHANGED world

NextLoop == Startup \/ LoopTop \/ PollKey \/ PollIdle \/ Tick

SpecLoop == Init /\ [][NextLoop]_vars

\* ------------------------------------------------- the line editor in a flow
\* Every binding of handle_input_key, with the modifiers that select it.
Mods(m) == {m}

EditKeys ==
    {CharKey(c, NoMods) : c \in Chars}
    \cup {Key(k, "", NoMods) :
            k \in {"Esc", "Enter", "Backspace", "Delete", "Left", "Right", "Home", "End"}}
    \cup {CharKey(c, Mods("CONTROL")) :
            c \in {"a", "e", "b", "f", "d", "h", "k", "u", "w", "y", "g", "j", "m"}}
    \cup {Key(k, "", Mods("CONTROL")) :
            k \in {"Home", "End", "Backspace", "Enter", "Left", "Right", "Delete"}}
    \cup {CharKey(c, Mods("ALT")) : c \in {"b", "f", "d"}}
    \cup {Key(k, "", Mods("ALT")) : k \in {"Left", "Right", "Delete", "Backspace"}}
    \cup {Key("Backspace", "", Mods("SUPER")), Key("Backspace", "", Mods("META"))}

\* The key source edits and cancels but commits nothing, and keeps the text
\* within MaxEditLen.
EditOnly(a) ==
    /\ Len(a.input_buffer) <= MaxEditLen
    /\ a.config = config
    /\ a.store = store
    /\ a.failed_saves = failed_saves

AcceptEdit(a) == EditOnly(a) /\ Install(a)

\* start_add_flow / start_edit_flow from Normal mode
StartFlow ==
    /\ ~should_quit
    /\ mode.tag = "Normal"
    /\ \E key \in {CharKey("a", NoMods), CharKey("e", NoMods)} :
        Install(handle_key(Self, key, AllOk))
    /\ UNCHANGED <<world, loop_vars>>

\* handle_input_key on one editing key
EditInput ==
    /\ ~should_quit
    /\ mode.tag = "Input"
    /\ \E key \in EditKeys :
        AcceptEdit(handle_key(Self, key, AllOk))
    /\ UNCHANGED <<world, loop_vars>>

NextEdit == StartFlow \/ EditInput

SpecEdit == Init /\ [][NextEdit]_vars

\* ===================================================================== claims
EnterKey == Key("Enter", "", NoMods)
EscKey == Key("Esc", "", NoMods)
CancelKeys == {EscKey, CharKey("g", {"CONTROL"})}
AllMods == {"SHIFT", "CONTROL", "ALT", "SUPER", "META"}
InterruptKeys == {CharKey("c", m) : m \in {n \in SUBSET AllMods : "CONTROL" \in n}}

\* C1: every change of the mode is one of Normal -> Input{Add,Directory},
\* Normal -> Input{Edit,Directory}, Normal -> ConfirmDelete{selected},
\* Input{f,Directory} -> Input{f,Editor} (same f, with a directory captured as
\* the pending path and an Info status, i.e. a successful directory step),
\* Input{f,s} -> Normal, ConfirmDelete -> Normal.
C1_ModeTransitions ==
    [][mode' # mode =>
        \/ /\ mode = ModeNormal
           /\ \/ mode' = ModeInput("Add", "Directory")
              \/ mode' = ModeInput("Edit", "Directory")
              \/ mode' = ModeConfirmDelete(selected)
        \/ /\ mode.tag = "Input" /\ mode.step = "Directory"
           /\ mode' = ModeInput(mode.flow, "Editor")
           /\ IsSome(pending_path') /\ IsDir(Unwrap(pending_path'))
           /\ IsSome(status') /\ Unwrap(status').kind = "Info"
        \/ /\ mode.tag = "Input"
           /\ mode' = ModeNormal
        \/ /\ mode.tag = "ConfirmDelete"
           /\ mode' = ModeNormal]_vars

\* C1 witness: an Edit flow has gone from its Directory step to its Editor
\* step.
C1_Witness_EditEditorStep == mode = ModeInput("Edit", "Editor")

\* C2: the selection index is within [0, len-1] of a non-empty entry list and
\* is 0 when the list is empty.
C2_SelectionInRange ==
    IF entries = << >> THEN selected = 0
    ELSE selected >= 0 /\ selected <= Len(entries) - 1

\* C2 witness: a deletion of the last of two entries has been confirmed and
\* the selection was pulled back to the remaining entry.
C2_Witness_AfterRemove ==
    /\ IsSome(status) /\ Unwrap(status).text.msg = "Removed"
    /\ Len(entries) = 1 /\ selected = 0
    /\ failed_saves = 1

\* C3 (as claimed): a commit whose write fails leaves the in-memory
\* configuration, the entry list and the selection as they were.
C3_FailedSaveAbortsCommit ==
    [][failed_saves' # failed_saves =>
        config' = config /\ entries' = entries /\ selected' = selected]_vars

\* A directory step fails on a blank, non-existent or non-directory path; an
\* editor step fails when the commit's write fails, or when the edited index
\* is no longer an index of the in-memory configuration.
DirectoryStepFails ==
    \/ Trim(input_buffer) = << >>
    \/ ~Exists(expand_path(Trim(input_buffer)))
    \/ ~IsDir(expand_path(Trim(input_buffer)))

EditedIndexInvalid ==
    /\ mode.flow = "Edit"
    /\ IsSome(editing_index)
    /\ Unwrap(editing_index) >= Len(config.entries)

SubmitFails(save_ok) ==
    IF mode.step = "Directory" THEN DirectoryStepFails
    ELSE ~save_ok \/ EditedIndexInvalid

\* C4: submitting a flow step that fails leaves the mode (flow and step), the
\* edit buffer, the cursor, the pending path and the editing index as they
\* were, as well as the rest of what is rendered (entries, selection); the
\* status becomes an Error carrying the failure text.
C4_FailedSubmitKeepsFlow ==
    mode.tag = "Input" =>
        \A save_ok \in BOOLEAN :
            SubmitFails(save_ok) =>
                LET a == handle_key(Self, EnterKey, [save_ok |-> save_ok, spawn_ok |-> TRUE])
                IN  /\ a.mode = mode
                    /\ a.input_buffer = input_buffer
                    /\ a.input_cursor = input_cursor
                    /\ a.pending_path = pending_path
                    /\ a.editing_index = editing_index
                    /\ a.entries = entries
                    /\ a.selected = selected
                    /\ IsSome(a.status)
                    /\ Unwrap(a.status).kind = "Error"
                    /\ Unwrap(a.status).age = 0
                    /\ Unwrap(a.status).text.msg \in
                         {"directory path cannot be empty", "does not exist",
                          "is not a directory", "failed to write config",
                          "invalid entry index"}

\* C4 witness: an editor step whose write failed: still the Editor step, the
\* typed editor still in the buffer, an Error status shown.
C4_Witness_FailedEditorStep ==
    /\ mode.tag = "Input" /\ mode.step = "Editor"
    /\ input_buffer # << >>
    /\ IsSome(status) /\ Unwrap(status).text.msg = "failed to write config"

\* C5: in every mode Ctrl+C (with any further modifiers) sets the quit flag
\* and changes nothing else, the configuration file included.
C5_InterruptOnlySetsQuit ==
    \A key \in InterruptKeys, io \in Outcomes :
        handle_key(Self, key, io) = [Self EXCEPT !.should_quit = TRUE]

\* C5 witness: the session was interrupted in the middle of a flow, with typed
\* text in the buffer.
C5_Witness_InterruptedFlow ==
    should_quit /\ mode.tag = "Input" /\ input_buffer # << >>

\* C6: cancelling a flow (Esc or Ctrl+G) at either step sets the mode to
\* Normal, empties the buffer with cursor 0, clears the pending path, the
\* editing index and the kill-ring, and leaves the entry list, the selection,
\* the configuration (default editor) and the configuration file unchanged.
C6_CancelDiscardsFlow ==
    mode.tag = "Input" =>
        \A key \in CancelKeys, io \in Outcomes :
            LET a == handle_key(Self, key, io)
            IN  /\ a.mode = ModeNormal
                /\ a.input_buffer = << >>
                /\ a.input_cursor = 0
                /\ a.pending_path = None
                /\ a.editing_index = None
                /\ a.kill_buffer = << >>
                /\ a.entries = entries
                /\ a.selected = selected
                /\ a.config = config
                /\ a.store = store
                /\ a.should_quit = should_quit

\* C6 witness: an Edit flow at its Editor step, with text in the buffer, a
\* killed text in the kill-ring, a pending path and an editing index: every
\* field the cancel has to clear is set when the cancel key arrives.
C6_Witness_CancelWithKill ==
    /\ mode.tag = "Input" /\ mode.step = "Editor" /\ mode.flow = "Edit"
    /\ kill_buffer # << >> /\ input_buffer # << >>
    /\ IsSome(pending_path) /\ IsSome(editing_index)

\* C7 (as claimed): right after a flow is cancelled, by Esc or by Ctrl+G, no
\* status message is set.
C7_CancelClearsStatus ==
    mode.tag = "Input" =>
        \A key \in CancelKeys : handle_key(Self, key, AllOk).status = None

\* C8 (as claimed): at the end of every loop iteration, ended by the tick test
\* or by the quit flag, no refresh is due: an interval that had elapsed was
\* answered by a refresh and a reset of the tick timer in that iteration.
C8_NoIterationEndsDue ==
    pc \in {"top", "done"} => since_tick < BRANCH_REFRESH

\* C8 (amended): every iteration the quit flag does not end goes on to the
\* tick test, and there, when the interval has elapsed, every entry's status
\* is refreshed and the tick timer reset, whether or not the iteration
\* dispatched a key.
C8_DueRefreshUnlessQuit ==
    [][/\ (pc = "poll" /\ ~should_quit') => pc' = "tick"
       /\ (pc = "tick" /\ since_tick >= BRANCH_REFRESH) =>
            /\ since_tick' = 0
            /\ entries' = refresh_branches(Self).entries
            /\ pc' = "top"]_vars

\* C8 witness: the tick test is reached with the interval elapsed in an
\* iteration that dispatched a key.
C8_Witness_DueAfterKey ==
    pc = "tick" /\ dispatched /\ since_tick >= BRANCH_REFRESH

\* C9: a dispatch that sets the quit flag ends the loop in that same step, the
\* flag is never reset, and nothing (no refresh, render or dispatch) happens
\* once it is set.
C9_QuitEndsLoop ==
    [][/\ should_quit' => pc' = "done"
       /\ should_quit => UNCHANGED vars]_vars

\* C9 witness: the loop ended on the quit flag with a refresh due and a flow
\* open.
C9_Witness_QuitWhileDue ==
    should_quit /\ pc = "done" /\ since_tick >= BRANCH_REFRESH /\ mode.tag = "Input"

\* C10: a status message disappears either at the top of an iteration, in
\* Normal mode, with its age at the timeout, or by a key dispatched in
\* ConfirmDelete mode (Esc); in Input and ConfirmDelete mode the passage of
\* time never removes it.
C10_StatusExpiryOnlyInNormal ==
    [][(IsSome(status) /\ status' = None) =>
        \/ pc = "top" /\ mode.tag = "Normal" /\ Unwrap(status).age >= STATUS_TIMEOUT
        \/ pc = "poll" /\ mode.tag = "ConfirmDelete" /\ mode'.tag = "Normal"]_vars

\* C10 witness: in Input mode a status older than the timeout has passed the
\* top of an iteration and is still shown.
C10_Witness_OldStatusInFlow ==
    /\ mode.tag = "Input" /\ pc = "poll"
    /\ IsSome(status) /\ Unwrap(status).age >= STATUS_TIMEOUT

\* C11: the input wait of an iteration is max(0, BRANCH_REFRESH - time since
\* the last tick): at most the tick interval, zero once the interval has
\* elapsed, and the time that passes in the wait does not go past it, so the
\* wait ends at the tick deadline at the latest.
C11_WaitBoundedByDeadline ==
    [][pc = "poll" =>
        /\ Timeout = Max(0, BRANCH_REFRESH - since_tick)
        /\ Timeout <= BRANCH_REFRESH
        /\ (since_tick >= BRANCH_REFRESH => Timeout = 0)
        /\ since_tick' <= since_tick + Max(0, BRANCH_REFRESH - since_tick)]_vars

\* C11 witness: a wait that began part-way through the interval ended with no
\* key exactly at the tick deadline.
C11_Witness_IdleUntilDeadline ==
    pc = "tick" /\ ~dispatched /\ since_tick = BRANCH_REFRESH /\ mode.tag = "Input"

\* C11 second witness: the interval was already exceeded when the wait was
\* computed, so the wait is zero.
C11_Witness_Overdue == pc = "poll" /\ since_tick > BRANCH_REFRESH

\* The step is a successful commit: an editor step that ended its flow with
\* 'Registered' or 'Updated', or a confirmed deletion that reported 'Removed'.
StatusMsgAfter(msgs) == IsSome(status') /\ Unwrap(status').text.msg \in msgs

SuccessfulCommitStep ==
    \/ /\ mode.tag = "Input" /\ mode.step = "Editor" /\ mode'.tag = "Normal"
       /\ StatusMsgAfter({"Registered", "Updated"})
    \/ /\ mode.tag = "ConfirmDelete" /\ mode'.tag = "Normal"
       /\ StatusMsgAfter({"Removed"})

SubmitKeys ==
    {EnterKey, Key("Enter", "", {"CONTROL"}),
     CharKey("j", {"CONTROL"}), CharKey("m", {"CONTROL"})}

\* C12: after every successful Add, Edit or delete commit the configuration
\* file holds exactly the session's entry list (paths and editors, in order),
\* and only those commits change the file: no other step does, and no
\* line-editing or cancel key of a flow does.
C12_StoreFollowsCommits ==
    /\ [](mode.tag = "Input" =>
            \A key \in EditKeys \ SubmitKeys, io \in Outcomes :
                handle_key(Self, key, io).store = store)
    /\ [][/\ store' # store => SuccessfulCommitStep
          /\ SuccessfulCommitStep =>
                store'.entries = [i \in 1..Len(entries') |-> entries'[i].config]]_vars

\* C12 witness: an Edit commit succeeded after an earlier write had failed, and
\* the file holds two entries.
C12_Witness_UpdatedAfterFailure ==
    /\ IsSome(status) /\ Unwrap(status).text.msg = "Updated"
    /\ Len(store.entries) = 2 /\ failed_saves = 1 /\ mode.tag = "Normal"

\* The entries of a configuration list whose canonical path is that of path.
SamePathAt(es, path) == {i \in 1..Len(es) : normalize(es[i].path) = normalize(path)}

FirstOf(S) == CHOOSE i \in S : \A j \in S : i <= j

ConfigsOf(es) == [i \in 1..Len(es) |-> es[i].config]

\* The list old with the entry put where the first entry of the same canonical
\* path is, all other positions as they were, or at the end when there is none.
IsPutInto(new, old, entry) ==
    IF SamePathAt(old, entry.path) # {}
    THEN /\ Len(new) = Len(old)
         /\ \A i \in 1..Len(old) :
                new[i] = IF i = FirstOf(SamePathAt(old, entry.path)) THEN entry ELSE old[i]
    ELSE /\ Len(new) = Len(old) + 1
         /\ new[Len(new)] = entry
         /\ \A i \in 1..Len(old) : new[i] = old[i]

AfterConfirmedDelete == handle_key(Self, EnterKey, AllOk)

\* What a confirmed deletion of the selected entry is to leave.
DeleteLeavesOneFewer(a) ==
    /\ a.mode = ModeNormal
    /\ IF Len(entries) > 1
       THEN /\ Len(a.entries) = Len(entries) - 1
            /\ a.selected = Min(selected, Len(entries) - 2)
       ELSE /\ a.entries = << >>
            /\ a.selected = 0
    /\ Len(a.store.entries) = Len(store.entries) - 1

\* The confirmation is of the selected entry, and the deletion goes through.
ConfirmingSelected ==
    /\ mode.tag = "ConfirmDelete"
    /\ mode.index = selected
    /\ mode.index < Len(config.entries)

\* The displayed list and the file are the in-memory configuration list.
InSync ==
    /\ ConfigsOf(entries) = config.entries
    /\ store.entries = config.entries

\* C14 (as claimed): confirming the deletion of the selected entry s of n > 1
\* leaves n-1 entries with the selection at min(s, n-2), confirming the
\* deletion of the only entry leaves an empty list with selection 0, and the
\* file has one entry fewer.
C14_DeleteLeavesOneFewer ==
    ConfirmingSelected => DeleteLeavesOneFewer(AfterConfirmedDelete)

\* C14 (what holds): the same, in the states where the displayed list and the
\* file agree with the in-memory configuration list, i.e. where no earlier
\* failed write has left a mutation behind.
C14_DeleteLeavesOneFewerInSync ==
    (ConfirmingSelected /\ InSync) =>
        /\ DeleteLeavesOneFewer(AfterConfirmedDelete)
        /\ ConfigsOf(AfterConfirmedDelete.entries)
             = RemoveAt(config.entries, selected)

\* C14 witness: the last of two entries was deleted and the selection moved
\* to the remaining one.
C14_Witness_DeletedLast ==
    /\ IsSome(status) /\ Unwrap(status).text.msg = "Removed"
    /\ Unwrap(status).text.arg = display_path(PA)
    /\ Len(entries) = 1 /\ selected = 0 /\ Len(store.entries) = 1
    /\ failed_saves = 0

\* An editor step whose commit can go through: a directory is captured and,
\* in an Edit flow, the edited index is one of the configuration list.
EditorStepReady ==
    /\ mode.tag = "Input" /\ mode.step = "Editor"
    /\ IsSome(pending_path)
    /\ mode.flow = "Edit" =>
          (IsSome(editing_index) /\ Unwrap(editing_index) < Len(config.entries))

IsBlank(s) == \A i \in 1..Len(s) : IsWhitespace(s[i])

\* Where the committed entry is in the configuration list afterwards.
CommittedAt ==
    IF mode.flow = "Edit" THEN Unwrap(editing_index) + 1
    ELSE IF SamePathAt(config.entries, Unwrap(pending_path)) # {}
         THEN FirstOf(SamePathAt(config.entries, Unwrap(pending_path)))
         ELSE Len(config.entries) + 1

C15_Witness_BlankOnEmptyRegistry ==
    /\ mode = ModeInput("Add", "Editor")
    /\ IsSome(pending_path) /\ config.entries = << >>
    /\ input_buffer = <<" ">>

\* C16: outside Input mode the flow context is empty: no pending path, no
\* editing index, an empty edit buffer and the cursor at 0.
C16_NoFlowContextOutsideInput ==
    mode.tag \in {"Normal", "ConfirmDelete"} =>
        /\ pending_path = None
        /\ editing_index = None
        /\ input_buffer = << >>
        /\ input_cursor = 0

\* C16 witness: a deletion is being confirmed after a flow was committed (the
\* file holds the entry of a without an editor, which no initial file does)
\* and after a write had failed.
C16_Witness_ConfirmAfterFlow ==
    /\ mode.tag = "ConfirmDelete"
    /\ failed_saves = 1
    /\ \E i \in 1..Len(store.entries) : store.entries[i] = EntryConfig(PA, None)

CursorInRange(a) == a.input_cursor >= 0 /\ a.input_cursor <= Len(a.input_buffer)

\* C17: the cursor is within [0, buffer length], counted in characters, in
\* every state reached by inserts, deletes, moves, word moves, kills, yank,
\* flow start, prefill and cancel, and it stays so under every binding of the
\* line editor, the submit of either step with either outcome of the write
\* included.
C17_CursorInRange ==
    /\ CursorInRange(Self)
    /\ mode.tag = "Input" =>
        /\ \A key \in EditKeys : CursorInRange(handle_key(Self, key, AllOk))
        /\ \A key \in SubmitKeys, io \in Outcomes :
                CursorInRange(handle_key(Self, key, io))

\* C17 witness: after a kill and further editing the cursor stands inside a
\* two-character buffer.
C17_Witness_CursorInside ==
    /\ mode.tag = "Input"
    /\ Len(input_buffer) = 2 /\ input_cursor = 1
    /\ kill_buffer # << >>

CtrlKey(c) == CharKey(c, {"CONTROL"})
ModKey(code, m) == Key(code, "", {m})

\* The bindings of the four kill operations (handle_ctrl_input,
\* handle_alt_input, handle_super_input).
KillToStartKeys == {CtrlKey("u"), ModKey("Backspace", "SUPER"), ModKey("Backspace", "META")}
KillToEndKeys == {CtrlKey("k")}
KillPrevWordKeys == {CtrlKey("w"), ModKey("Backspace", "CONTROL"), ModKey("Backspace", "ALT")}
KillWordForwardKeys == {ModKey("Delete", "CONTROL"), CharKey("d", {"ALT"}), ModKey("Delete", "ALT")}

\* The kill bound to `key` takes the characters [start, end) of the buffer:
\* when that span is not empty the buffer loses exactly it and the kill-ring
\* is exactly it, otherwise buffer, cursor and kill-ring are as before.
KillTakes(key, start, end) ==
    LET a == handle_key(Self, key, AllOk)
        span == SubSeq(input_buffer, start + 1, end)
    IN  IF span # << >>
        THEN /\ a.kill_buffer = span
             /\ a.input_buffer = SubSeq(input_buffer, 1, start)
                                    \o SubSeq(input_buffer, end + 1, Len(input_buffer))
        ELSE /\ a.kill_buffer = kill_buffer
             /\ a.input_buffer = input_buffer
             /\ a.input_cursor = input_cursor

\* C18: a kill (to start, to end, word backward, word forward) that removes a
\* non-empty span leaves the kill-ring equal to exactly the removed text,
\* whatever it held before; a kill that removes nothing leaves the buffer and
\* the kill-ring unchanged.
C18_KillRingIsLastRemoved ==
    mode.tag = "Input" =>
        /\ \A key \in KillToStartKeys : KillTakes(key, 0, input_cursor)
        /\ \A key \in KillToEndKeys : KillTakes(key, input_cursor, Len(input_buffer))
        /\ \A key \in KillPrevWordKeys :
                KillTakes(key, word_left_index(Self), input_cursor)
        /\ \A key \in KillWordForwardKeys :
                KillTakes(key, input_cursor, word_right_index(Self))

\* C18 witness: the kill-ring holds "a" from an earlier kill and the cursor
\* stands between "a" and " ", so a kill to the end removes " ".
C18_Witness_KillOverPreviousKill ==
    /\ mode.tag = "Input"
    /\ kill_buffer = <<"a">>
    /\ input_buffer = <<"a", " ">>
    /\ input_cursor = 1
    /\ handle_key(Self, CtrlKey("k"), AllOk).kill_buffer = <<" ">>

KillKeys == KillToStartKeys \cup KillToEndKeys \cup KillPrevWordKeys \cup KillWordForwardKeys

\* The bindings of insert_char, delete_prev_char, delete_char, the cursor and
\* word moves and yank_kill_buffer: every editing key that neither kills,
\* cancels nor submits.
NoKillKeys == EditKeys \ (KillKeys \cup CancelKeys \cup SubmitKeys)

YankKey == CtrlKey("y")

\* C19: inserting, deleting before or after the cursor, moving the cursor (by
\* character, by word, to either end) and yanking leave the kill-ring
\* unchanged; so two yanks in a row each insert the same text, the kill-ring,
\* at the cursor.
C19_NonKillKeepsKillRing ==
    mode.tag = "Input" =>
        /\ \A key \in NoKillKeys : handle_key(Self, key, AllOk).kill_buffer = kill_buffer
        /\ LET once == handle_key(Self, YankKey, AllOk)
               twice == handle_key(once, YankKey, AllOk)
           IN  /\ once.input_buffer = InsertAt(input_buffer, input_cursor, kill_buffer)
               /\ twice.input_buffer =
                      InsertAt(once.input_buffer, once.input_cursor, kill_buffer)
               /\ twice.kill_buffer = kill_buffer

\* C19 witness: with " " in the kill-ring and the cursor inside "aa", both
\* deletes act, and two yanks put " " twice between the letters.
C19_Witness_YankTwice ==
    /\ mode.tag = "Input"
    /\ kill_buffer = <<" ">>
    /\ input_buffer = <<"a", "a">>
    /\ input_cursor = 1
    /\ {YankKey, Key("Backspace", "", NoMods), Key("Delete", "", NoMods),
        CharKey("a", NoMods), CtrlKey("h"), CtrlKey("d")} \subseteq NoKillKeys
    /\ handle_key(handle_key(Self, YankKey, AllOk), YankKey, AllOk).input_buffer
            = <<"a", " ", " ", "a">>

KillToEndKey == CtrlKey("k")

\* C20: with the cursor at c, before the end of the buffer, a kill to the end
\* leaves the first c characters in the buffer, the cursor at c and the
\* removed suffix in the kill-ring; a yank right after it gives back the
\* original buffer, with the cursor at its end.
C20_KillToEndThenYank ==
    (mode.tag = "Input" /\ input_cursor < Len(input_buffer)) =>
        LET killed == handle_key(Self, KillToEndKey, AllOk)
            yanked == handle_key(killed, YankKey, AllOk)
        IN  /\ killed.input_buffer = SubSeq(input_buffer, 1, input_cursor)
            /\ killed.input_cursor = input_cursor
            /\ killed.kill_buffer =
                  SubSeq(input_buffer, input_cursor + 1, Len(input_buffer))
            /\ yanked.input_buffer = input_buffer
            /\ yanked.input_cursor = Len(input_buffer)
            /\ yanked.kill_buffer = killed.kill_buffer

\* C20 witness: " a" with the cursor after the blank and another text in the
\* kill-ring; the kill leaves " " and takes "a".
C20_Witness_KillSuffix ==
    /\ mode.tag = "Input"
    /\ input_buffer = <<" ", "a">>
    /\ input_cursor = 1
    /\ kill_buffer = <<" ">>
    /\ handle_key(Self, KillToEndKey, AllOk).input_buffer = <<" ">>
    /\ handle_key(Self, KillToEndKey, AllOk).kill_buffer = <<"a">>

WordLeftKey == CharKey("b", {"ALT"})
WordRightKey == CharKey("f", {"ALT"})

\* The cursor after word-left followed by word-right
LeftThenRight ==
    handle_key(handle_key(Self, WordLeftKey, AllOk), WordRightKey, AllOk).input_cursor

\* The character before the cursor and the one after it both belong to a word.
StrictlyInsideWord ==
    /\ mode.tag = "Input"
    /\ 0 < input_cursor /\ input_cursor < Len(input_buffer)
    /\ ~IsWhitespace(input_buffer[input_cursor])
    /\ ~IsWhitespace(input_buffer[input_cursor + 1])

\* The character before the cursor belongs to a word.
AfterWordCharacter ==
    /\ mode.tag = "Input"
    /\ 0 < input_cursor
    /\ ~IsWhitespace(input_buffer[input_cursor])

\* The end of the word the cursor is in or after: the first offset from the
\* cursor on that is the end of the buffer or followed by whitespace.
WordEndFrom(c) ==
    CHOOSE e \in c..Len(input_buffer) :
        /\ e = Len(input_buffer) \/ IsWhitespace(input_buffer[e + 1])
        /\ \A k \in c..(e - 1) : ~IsWhitespace(input_buffer[k + 1])

\* C21 (as claimed): from every cursor position inside a word without
\* whitespace, word-left followed by word-right returns the cursor to where
\* it was.
C21_LeftThenRightReturns ==
    StrictlyInsideWord => LeftThenRight = input_cursor

\* C21 (amended): from every cursor position inside or at the end of a word,
\* word-left followed by word-right puts the cursor at the end of that word,
\* and leaves the buffer alone; the cursor is back where it was exactly when
\* it stood at the end of the word.
C21_LeftThenRightEndsWord ==
    AfterWordCharacter =>
        /\ LeftThenRight = WordEndFrom(input_cursor)
        /\ (LeftThenRight = input_cursor) <=>
              (input_cursor = Len(input_buffer)
                  \/ IsWhitespace(input_buffer[input_cursor + 1]))
        /\ handle_key(handle_key(Self, WordLeftKey, AllOk), WordRightKey, AllOk)
              .input_buffer = input_buffer

\* C21 witness: the cursor between the two letters of "aa"; word-left goes to
\* 0 and word-right from there to 2.
C21_Witness_MiddleOfWord ==
    /\ StrictlyInsideWord
    /\ input_buffer = <<"a", "a">>
    /\ input_cursor = 1
    /\ handle_key(Self, WordLeftKey, AllOk).input_cursor = 0
    /\ LeftThenRight = 2

\* The key codes each category binds (the interrupt, Control+C, is taken
\* before any category).
CtrlBound ==
    {CharKey(c, NoMods) :
        c \in {"a", "e", "b", "f", "d", "h", "k", "u", "w", "y", "g", "j", "m"}}
    \cup {Key(k, "", NoMods) :
            k \in {"Home", "End", "Backspace", "Enter", "Left", "Right", "Delete"}}
SuperBound == {Key("Backspace", "", NoMods)}
AltBound ==
    {CharKey(c, NoMods) : c \in {"b", "f", "d"}}
    \cup {Key(k, "", NoMods) : k \in {"Left", "Right", "Delete", "Backspace"}}

Held(key, mods) == [key EXCEPT !.mods = mods]

Pressed(key, mods) == handle_key(Self, Held(key, mods), AllOk)

\* C22: in Input mode the first category with a binding for the key decides,
\* in the order control, super/meta, alt: whatever else is held, a
\* control-bound key does what it does with Control alone, Backspace with
\* Super or Meta (and no Control) kills to the start, an alt-bound key with
\* Alt (and no Control; for Backspace no Super or Meta) does what it does
\* with Alt alone. Control+Alt+b is one char-left, Control+Super+Backspace is
\* one kill-word-backward: the operation of one category and nothing more.
C22_FirstCategoryWins ==
    mode.tag = "Input" =>
        /\ \A key \in CtrlBound, more \in SUBSET {"ALT", "SUPER", "META"} :
                Pressed(key, {"CONTROL"} \cup more) = Pressed(key, {"CONTROL"})
        /\ \A key \in SuperBound, platform \in (SUBSET {"SUPER", "META"}) \ {{}},
              more \in SUBSET {"ALT", "SHIFT"} :
                Pressed(key, platform \cup more) = kill_to_start(Self)
        /\ \A key \in AltBound \ SuperBound, more \in SUBSET {"SUPER", "META", "SHIFT"} :
                Pressed(key, {"ALT"} \cup more) = Pressed(key, {"ALT"})
        /\ Pressed(Key("Backspace", "", NoMods), {"ALT", "SHIFT"}) = kill_prev_word(Self)
        /\ Pressed(CharKey("b", NoMods), {"CONTROL", "ALT"}) = move_cursor_left(Self)
        /\ Pressed(CharKey("b", NoMods), {"ALT"}) = move_word_left(Self)
        /\ Pressed(Key("Backspace", "", NoMods), {"CONTROL", "SUPER"}) = kill_prev_word(Self)
        /\ Pressed(Key("Backspace", "", NoMods), {"SUPER"}) = kill_to_start(Self)

\* C22 witness: after "a " char-left stops at 1 and word-left at 0, and
\* Control+Alt+b goes to 1.
C22_Witness_CharLeftNotWordLeft ==
    /\ mode.tag = "Input"
    /\ input_buffer = <<"a", " ">>
    /\ input_cursor = 2
    /\ Pressed(CharKey("b", NoMods), {"CONTROL", "ALT"}).input_cursor = 1
    /\ Pressed(CharKey("b", NoMods), {"ALT"}).input_cursor = 0

\* C22 witness: after " a" kill-word-backward takes "a" and kill-to-start
\* " a", and Control+Super+Backspace takes "a".
C22_Witness_KillWordNotKillToStart ==
    /\ mode.tag = "Input"
    /\ input_buffer = <<" ", "a">>
    /\ input_cursor = 2
    /\ Pressed(Key("Backspace", "", NoMods), {"CONTROL", "SUPER"}).kill_buffer = <<"a">>
    /\ Pressed(Key("Backspace", "", NoMods), {"SUPER"}).kill_buffer = <<" ", "a">>

\* A key held with Control, Super/Meta or Alt that no category of a held
\* modifier binds (and that is not the interrupt).
Unbound(key) ==
    /\ key.mods \cap {"CONTROL", "SUPER", "META", "ALT"} # {}
    /\ ~IsInterrupt(key)
    /\ "CONTROL" \in key.mods => Held(key, NoMods) \notin CtrlBound
    /\ ("SUPER" \in key.mods \/ "META" \in key.mods) => Held(key, NoMods) \notin SuperBound
    /\ "ALT" \in key.mods => Held(key, NoMods) \notin AltBound

ModifiedKeys ==
    {Held(key, mods) :
        key \in CtrlBound \cup {Key("Esc", "", NoMods), CharKey("x", NoMods)},
        mods \in (SUBSET {"CONTROL", "SUPER", "META", "ALT"}) \ {{}}}

SameEditorAndFlow(a) ==
    /\ a.input_buffer = input_buffer
    /\ a.input_cursor = input_cursor
    /\ a.kill_buffer = kill_buffer
    /\ a.mode = mode
    /\ a.pending_path = pending_path
    /\ a.editing_index = editing_index

\* C23 (as claimed): in Input mode a key held with Control, Super/Meta or Alt
\* that no category of a held modifier binds (Super+Delete, Alt+Enter,
\* Alt+Home, Control+x, ...) changes nothing: buffer, cursor, kill-ring, mode
\* and flow context are as before.
C23_UnboundComboIsNoOp ==
    mode.tag = "Input" =>
        \A key \in ModifiedKeys :
            Unbound(key) => SameEditorAndFlow(handle_key(Self, key, AllOk))

\* C23, the part on characters: a character key held with anything but Shift
\* inserts nothing, unless a category binds it.
C23_ModifiedCharInsertsNothing ==
    mode.tag = "Input" =>
        \A key \in ModifiedKeys :
            (Unbound(key) /\ key.code = "Char")
                => SameEditorAndFlow(handle_key(Self, key, AllOk))

\* C23 witness: Super+Delete, which no category binds, with a character
\* after the cursor.
C23_Witness_SuperDeleteDeletes ==
    /\ mode.tag = "Input"
    /\ input_buffer = <<"a", "a">>
    /\ input_cursor = 1
    /\ Unbound(Key("Delete", "", {"SUPER"}))
    /\ Pressed(Key("Delete", "", NoMods), {"SUPER"}).input_buffer = <<"a">>
    /\ SameEditorAndFlow(Pressed(CharKey("x", NoMods), {"CONTROL"}))

\* C24: refreshing an entry whose path does not exist makes its status
\* Missing, whatever it was, and makes no call to the git prober for it.
C24_MissingWithoutGit ==
    \A i \in 1..Len(entries) :
        ~Exists(entries[i].config.path) =>
            /\ refresh_branches(Self).entries[i].branch = Branch("Missing", "")
            /\ git_calls_for(entries[i].config) = << >>

\* C24 witness: an entry shown with a branch whose directory has gone since.
C24_Witness_ReadyNowGone ==
    \E i \in 1..Len(entries) :
        /\ entries[i].branch.tag = "Ready"
        /\ ~Exists(entries[i].config.path)

\* A git call made for the entry fails: current_branch, or diff_stat after it.
GitCallFails(entry) ==
    /\ Exists(entry.path) /\ IsDir(entry.path)
    /\ Resolve(entry.path).git \in {"branch_err", "diff_err"}

\* C25 (as claimed): when a git call made for an entry fails, current-branch
\* or diff-counts, the refresh leaves that entry with the status Error.
C25_GitFailureIsError ==
    \A i \in 1..Len(entries) :
        GitCallFails(entries[i].config) =>
            refresh_branches(Self).entries[i].branch.tag = "Error"

\* C25, the part on the other entries: a refresh gives every entry, in the
\* order of the list, the status computed from its own path alone, whatever
\* the git calls for the other entries did; a failing current-branch call
\* makes the entry's status Error.
C25_EveryEntryRefreshed ==
    LET a == refresh_branches(Self)
    IN  /\ Len(a.entries) = Len(entries)
        /\ \A i \in 1..Len(entries) :
            /\ a.entries[i].config = entries[i].config
            /\ a.entries[i].branch = branch_state_for(entries[i].config)
            /\ (Exists(entries[i].config.path) /\ IsDir(entries[i].config.path)
                    /\ Resolve(entries[i].config.path).git = "branch_err")
                  => a.entries[i].branch.tag = "Error"

\* C25 witness: after a refresh the first entry's git call has failed and the
\* second entry shows its branch.
C25_Witness_ErrorThenReady ==
    /\ Len(entries) = 2
    /\ GitCallFails(entries[1].config)
    /\ entries[1].branch.tag = "Error"
    /\ entries[2].branch.tag = "Ready"
    /\ entries = refresh_branches(Self).entries

\* The keys that launch in Normal mode, and the index each one aims at.
LaunchKeys == {EnterKey} \cup {CharKey(c, NoMods) : c \in {"1", "2", "3", "9"}}
LaunchTarget(key) == IF key = EnterKey THEN selected ELSE DigitIndex(key)

\* launch_editor gets as far as the spawn: an editor command is set for the
\* entry or in the environment.
SpawnAttempted(entry) ==
    LET command == IF IsSome(entry.editor) THEN entry.editor ELSE world.env_editor
    IN  IsSome(command) /\ Trim(Unwrap(command)) # << >>

SpawnOutcome(ok) == [save_ok |-> TRUE, spawn_ok |-> ok]

StatusKindOf(a) == IF IsSome(a.status) THEN Unwrap(a.status).kind ELSE "none"

\* C26: in Normal mode, a launch by Enter or by a hotkey within the list
\* whose spawn fails sets an Error status and leaves the mode Normal, the
\* quit flag unset and the entries (and the registry and its file) as they
\* were; one whose spawn succeeds sets an Info status; Enter on an empty list
\* and a hotkey beyond the end of the list change nothing at all.
C26_LaunchOutcome ==
    (mode.tag = "Normal" /\ ~should_quit) =>
        \A key \in LaunchKeys, ok \in BOOLEAN :
            LET a == handle_key(Self, key, SpawnOutcome(ok))
            IN  IF LaunchTarget(key) >= Len(entries) THEN a = Self
                ELSE /\ a.mode = ModeNormal /\ ~a.should_quit
                     /\ a.entries = entries /\ a.config = config /\ a.store = store
                     /\ a.selected = LaunchTarget(key)
                     /\ SpawnAttempted(entries[LaunchTarget(key) + 1].config) =>
                            StatusKindOf(a) = (IF ok THEN "Info" ELSE "Error")
                     /\ ~ok => StatusKindOf(a) = "Error"

\* C26 witness: the spawn for the second of two entries has just failed (its
\* own editor is set, so the spawn was attempted), by hotkey or by Enter.
C26_Witness_SpawnFailed ==
    /\ mode.tag = "Normal"
    /\ Len(entries) = 2 /\ selected = 1
    /\ SpawnAttempted(entries[2].config)
    /\ IsSome(status)
    /\ Unwrap(status).kind = "Error"
    /\ Unwrap(status).text.msg = "failed to launch editor"

\* Enter, with the write going through, removes from the displayed list and
\* from the file exactly the entry displayed at index i.
DeletesShownEntry(i) ==
    LET a == handle_key(Self, EnterKey, AllOk)
    IN  /\ ConfigsOf(a.entries) = RemoveAt(ConfigsOf(entries), i)
        /\ i < Len(store.entries)
        /\ store.entries[i + 1] = entries[i + 1].config
        /\ a.store.entries = RemoveAt(store.entries, i)

\* C27 (as claimed): confirming ConfirmDelete{i} removes from the displayed
\* list and from the file exactly the entry displayed at index i, and nothing
\* else, also after commits whose write failed.
C27_DeletesShownEntry ==
    (mode.tag = "ConfirmDelete" /\ mode.index < Len(entries)) =>
        DeletesShownEntry(mode.index)

\* C27 (what holds): the same in the states where the displayed list and the
\* file agree with the in-memory configuration list.
C27_DeletesShownEntryInSync ==
    (mode.tag = "ConfirmDelete" /\ mode.index < Len(entries) /\ InSync) =>
        DeletesShownEntry(mode.index)

\* C27 witness: a deletion of the first of the two displayed entries waits
\* for its confirmation while the in-memory configuration list, after a
\* failed write, holds only the first.
C27_Witness_ConfirmOutOfSync ==
    /\ mode.tag = "ConfirmDelete" /\ mode.index = 0
    /\ failed_saves = 1
    /\ ConfigsOf(entries) = <<EntryConfig(PB, None), EntryConfig(PA, Some(PA))>>
    /\ config.entries = <<EntryConfig(PB, None)>>
    /\ handle_key(Self, EnterKey, AllOk).store.entries = << >>

Reported(msgs) ==
    IsSome(status) /\ Unwrap(status).kind = "Error" /\ Unwrap(status).text.msg \in msgs

\* In an editor step a directory is captured; in an Edit flow the edited index
\* is set and is an index of the displayed list; a deletion to confirm is of
\* an index of the displayed list.
FlowContextSet ==
    /\ (mode.tag = "Input" /\ mode.step = "Editor") => IsSome(pending_path)
    /\ (mode.tag = "Input" /\ mode.flow = "Edit") =>
          (IsSome(editing_index) /\ Unwrap(editing_index) < Len(entries))
    /\ mode.tag = "ConfirmDelete" => mode.index < Len(entries)

\* C28 (as claimed): the errors 'no directory captured', 'no entry selected
\* to edit' and 'invalid entry index' are never reported, the flow context
\* and the index to delete being always set and within the list.
C28_NoConsistencyError ==
    /\ ~Reported({"no directory captured", "no entry selected to edit",
                  "invalid entry index"})
    /\ FlowContextSet

\* C28 (what holds): 'no directory captured' and 'no entry selected to edit'
\* are never reported, the flow context and the index to delete are set and
\* within the displayed list, and 'invalid entry index' is reported only
\* after a write of the configuration file has failed.
C28_NoConsistencyErrorUnlessWriteFailed ==
    /\ ~Reported({"no directory captured", "no entry selected to edit"})
    /\ FlowContextSet
    /\ Reported({"invalid entry index"}) => failed_saves > 0

\* C28 witness: 'invalid entry index' is on display.
C28_Witness_InvalidIndexReported ==
    /\ Reported({"invalid entry index"})
    /\ FlowContextSet

\* C29: a refresh, wherever between two keys it falls (in the middle of an
\* Add or Edit flow or of a delete confirmation too), changes nothing but the
\* branch statuses of the entries: their paths, editors and order, the
\* selection, the mode, the buffer and cursor, the kill-ring, the flow
\* context, the status message, the registry and its file stay as they are.
C29_RefreshOnlyTouchesBranches ==
    /\ [](/\ ConfigsOf(refresh_branches(Self).entries) = ConfigsOf(entries)
          /\ refresh_branches(Self)
                = [Self EXCEPT !.entries = refresh_branches(Self).entries])
    /\ [][(entries' # entries /\ mode' = mode /\ status' = status)
            => /\ ConfigsOf(entries') = ConfigsOf(entries)
               /\ UNCHANGED <<config, selected, input_buffer, input_cursor,
                              kill_buffer, pending_path, editing_index,
                              should_quit, store, failed_saves>>]_vars

\* C29 witness: in the editor step of a flow, with text typed, an entry still
\* shows a branch although its directory has gone; the displayed list differs
\* from the registry after a failed write.
C29_Witness_StaleInFlow ==
    /\ mode.tag = "Input" /\ mode.step = "Editor"
    /\ IsSome(pending_path)
    /\ input_buffer # << >>
    /\ failed_saves > 0
    /\ ConfigsOf(entries) # config.entries
    /\ \E i \in 1..Len(entries) :
        entries[i].branch.tag = "Ready" /\ ~Exists(entries[i].config.path)

\* C29 witness: the same while a deletion waits for its confirmation.
C29_Witness_StaleInConfirm ==
    /\ mode.tag = "ConfirmDelete"
    /\ \E i \in 1..Len(entries) :
        entries[i].branch.tag = "Ready" /\ ~Exists(entries[i].config.path)

\* The list new is the list old with the entry at index idx replaced.
ReplacedAt(new, old, idx, entry) ==
    /\ Len(new) = Len(old)
    /\ new[idx + 1] = entry
    /\ \A j \in 1..Len(old) : j # idx + 1 => new[j] = old[j]

\* The editor step of an Edit flow whose commit can go through.
EditCommitReady == EditorStepReady /\ mode.flow = "Edit"

CanonDistinct(es) ==
    \A i, j \in 1..Len(es) : i # j => normalize(es[i].path) # normalize(es[j].path)

\* C31 (as claimed): after a successful Add or Edit commit the selection is
\* the index of the affected entry: for Add the entry appended or replaced,
\* for Edit the entry at the captured editing index.
C31_SelectionOnCommitted ==
    EditorStepReady =>
        handle_key(Self, EnterKey, AllOk).selected = CommittedAt - 1

\* C31 (what holds): after a successful Add or Edit commit the selection is
\* the first entry whose canonical path is that of the committed path; it is
\* the affected entry whenever the canonical paths of the resulting list are
\* pairwise distinct.
C31_SelectionOnFirstSamePath ==
    EditorStepReady =>
        LET a == handle_key(Self, EnterKey, AllOk)
        IN  /\ a.mode = ModeNormal
            /\ SamePathAt(a.config.entries, Unwrap(pending_path)) # {}
            /\ a.selected
                  = FirstOf(SamePathAt(a.config.entries, Unwrap(pending_path))) - 1
            /\ CanonDistinct(a.config.entries) => a.selected = CommittedAt - 1

\* C31 witness: the second of two entries is being edited, and the first has
\* the canonical path of the directory entered.
C31_Witness_EditBehindSamePath ==
    /\ EditCommitReady
    /\ editing_index = Some(1)
    /\ Len(config.entries) = 2
    /\ normalize(config.entries[1].path) = normalize(Unwrap(pending_path))
    /\ handle_key(Self, EnterKey, AllOk).selected = 0

\* The canonical paths of the registered entries are pairwise distinct in
\* every world but the one where a is a link to b, whatever file the session
\* started from.
StartsDistinct == world # Linked

\* C32 (as claimed): starting from a list whose canonical paths are pairwise
\* distinct, after any sequence of Add commits, Edit commits and delete
\* confirmations no two entries of the list have the same canonical path.
C32_PathsStayDistinct ==
    StartsDistinct => CanonDistinct(ConfigsOf(entries))

\* C32 (what holds): the session starts with pairwise distinct canonical
\* paths in those worlds, and every step other than a key of an Edit flow
\* keeps them distinct: Add commits and delete confirmations never produce two
\* entries of the same canonical path.
C32_AddAndDeleteKeepDistinct ==
    /\ StartsDistinct => CanonDistinct(config.entries)
    /\ [][(StartsDistinct /\ CanonDistinct(config.entries)
              /\ ~(mode.tag = "Input" /\ mode.flow = "Edit"))
            => CanonDistinct(config'.entries)]_vars

\* C32 witness: an Edit flow on the first entry is at its editor step with the
\* directory of the second entry captured, all canonical paths distinct so
\* far.
C32_Witness_EditOntoOtherEntry ==
    /\ StartsDistinct
    /\ EditCommitReady /\ InSync
    /\ CanonDistinct(config.entries)
    /\ editing_index = Some(0)
    /\ Len(config.entries) = 2
    /\ normalize(config.entries[2].path) = normalize(Unwrap(pending_path))
    /\ ~CanonDistinct(handle_key(Self, EnterKey, AllOk).config.entries)

\* A directory step whose completion succeeds.
DirectoryStepReady ==
    /\ mode.tag = "Input" /\ mode.step = "Directory"
    /\ ~DirectoryStepFails

\* The editor command of the entry an Edit flow will replace.
EditedOverride ==
    IF mode.flow = "Edit" /\ IsSome(editing_index)
          /\ Unwrap(editing_index) < Len(config.entries)
    THEN config.entries[Unwrap(editing_index) + 1].editor
    ELSE None

\* The first command that is set, or the empty string.
FirstAvailable(opts) ==
    IF \E i \in 1..Len(opts) : IsSome(opts[i])
    THEN Unwrap(opts[FirstOf({i \in 1..Len(opts) : IsSome(opts[i])})])
    ELSE << >>

C33_Witness_EnvironmentFallback ==
    /\ DirectoryStepReady
    /\ mode.flow = "Add"
    /\ config.default_editor = None /\ IsSome(world.env_editor)
    /\ handle_key(Self, EnterKey, AllOk).input_buffer = Unwrap(world.env_editor)

\* The keys that are neither Esc, Enter nor the interrupt.
NeitherEscNorEnter ==
    {key \in NormalKeys \cup InputKeys \cup ConfirmKeys \cup ModifiedKeys :
        key.code \notin {"Esc", "Enter"} /\ ~IsInterrupt(key)}

\* The removal of the entry a confirmation is about goes through.
RemovalSucceeds(io) == mode.index < Len(config.entries) /\ io.save_ok

\* C34: in ConfirmDelete mode Esc returns to Normal with the displayed list,
\* the selection and the file unchanged and the status cleared; Enter always
\* returns to Normal, with an Info status when the removal succeeded and an
\* Error status when it failed; every other key but the interrupt leaves the
\* whole session as it is.
C34_ConfirmDeleteKeys ==
    mode.tag = "ConfirmDelete" =>
        \A io \in Outcomes :
            /\ LET a == handle_key(Self, EscKey, io)
               IN  /\ a.mode = ModeNormal
                   /\ a.entries = entries /\ a.selected = selected
                   /\ a.config = config /\ a.store = store
                   /\ a.status = None
            /\ LET a == handle_key(Self, EnterKey, io)
               IN  /\ a.mode = ModeNormal
                   /\ IsSome(a.status)
                   /\ Unwrap(a.status).kind =
                          IF RemovalSucceeds(io) THEN "Info" ELSE "Error"
            /\ \A key \in NeitherEscNorEnter : handle_key(Self, key, io) = Self

\* C34 witness: a confirmation is pending with its prompt in the status; Esc
\* clears it, and Enter with a failing write reports an error in Normal mode.
C34_Witness_PromptShown ==
    /\ mode.tag = "ConfirmDelete"
    /\ IsSome(status)
    /\ mode.index < Len(config.entries)
    /\ handle_key(Self, EscKey, AllOk).status = None
    /\ Unwrap(handle_key(Self, EnterKey, [save_ok |-> FALSE, spawn_ok |-> TRUE]).status).kind = "Error"
    /\ Unwrap(handle_key(Self, EnterKey, AllOk).status).kind = "Info"

\* The keys bound to move-down and to move-up in Normal mode.
MoveDownKeys == {CharKey("j", NoMods), Key("Down", "", NoMods), CharKey("n", {"CONTROL"})}
MoveUpKeys == {CharKey("k", NoMods), Key("Up", "", NoMods), CharKey("p", {"CONTROL"})}

\* Where the selection is after a move-down and after a move-up.
SelectedBelow ==
    IF entries = << >> THEN selected
    ELSE IF selected = Len(entries) - 1 THEN 0 ELSE selected + 1
SelectedAbove ==
    IF entries = << >> THEN selected
    ELSE IF selected = 0 THEN Len(entries) - 1 ELSE selected - 1

\* C35: in Normal mode move-down from the last index selects index 0 and
\* move-up from index 0 selects the last index, from any other index they move
\* the selection by exactly one, on an empty list both do nothing, and neither
\* changes anything of the session but the selection (mode, displayed list,
\* configuration and file included).
C35_NavigationWraps ==
    mode.tag = "Normal" =>
        \A io \in Outcomes :
            /\ \A key \in MoveDownKeys :
                   handle_key(Self, key, io) = [Self EXCEPT !.selected = SelectedBelow]
            /\ \A key \in MoveUpKeys :
                   handle_key(Self, key, io) = [Self EXCEPT !.selected = SelectedAbove]

\* C35 witness: the first of two entries is selected and move-up selects the
\* last one.
C35_Witness_UpFromFirst ==
    /\ mode.tag = "Normal"
    /\ Len(entries) = 2 /\ selected = 0
    /\ \A key \in MoveUpKeys : handle_key(Self, key, AllOk).selected = 1

\* C35 witness: the last of two entries is selected and move-down selects the
\* first one.
C35_Witness_DownFromLast ==
    /\ mode.tag = "Normal"
    /\ Len(entries) = 2 /\ selected = 1
    /\ \A key \in MoveDownKeys : handle_key(Self, key, AllOk).selected = 0

\* C35 witness: navigation on the empty list.
C35_Witness_EmptyList ==
    /\ mode.tag = "Normal" /\ entries = << >> /\ ~should_quit
    /\ \A key \in MoveUpKeys \cup MoveDownKeys : handle_key(Self, key, AllOk) = Self

\* The characters of the buffer after index i and up to index j are all
\* whitespace (white = TRUE) or all non-whitespace (white = FALSE).
RunOf(white, i, j) ==
    \A k \in (i + 1)..j : IsWhitespace(input_buffer[k]) = white

\* The index reached from c by skipping whitespace and then non-whitespace
\* leftwards, and its mirror to the right.
LeftOfRun(white, c) == CHOOSE i \in 0..c :
    RunOf(white, i, c) /\ \A j \in 0..c : RunOf(white, j, c) => i <= j
RightOfRun(white, c) == CHOOSE i \in c..Len(input_buffer) :
    RunOf(white, c, i) /\ \A j \in c..Len(input_buffer) : RunOf(white, c, j) => j <= i
WordLeftFrom(c) == LeftOfRun(FALSE, LeftOfRun(TRUE, c))
WordRightFrom(c) == RightOfRun(FALSE, RightOfRun(TRUE, c))

\* C36: word_left_index is the index reached from the cursor by skipping
\* whitespace leftwards and then non-whitespace leftwards, word_right_index is
\* the mirror to the right; word_left_index is 0 when the cursor is 0,
\* word_right_index is the length when the cursor is at the length, and
\* 0 <= word_left_index <= cursor <= word_right_index <= length.
C36_WordIndices ==
    mode.tag = "Input" =>
        /\ word_left_index(Self) = WordLeftFrom(input_cursor)
        /\ word_right_index(Self) = WordRightFrom(input_cursor)
        /\ input_cursor = 0 => word_left_index(Self) = 0
        /\ input_cursor = Len(input_buffer) => word_right_index(Self) = Len(input_buffer)
        /\ 0 <= word_left_index(Self)
        /\ word_left_index(Self) <= input_cursor
        /\ input_cursor <= word_right_index(Self)
        /\ word_right_index(Self) <= Len(input_buffer)

\* C36 witness: the cursor is after a word followed by whitespace, so that the
\* index to the left is reached over the whitespace and then over the word.
C36_Witness_WhitespaceThenWord ==
    /\ mode.tag = "Input"
    /\ input_buffer = <<"a", " ">> /\ input_cursor = 2
    /\ word_left_index(Self) = 0
    /\ word_right_index(Self) = 2

\* C36 witness: the cursor is before whitespace followed by a word, and the
\* index to the right is past the word.
C36_Witness_WordAfterWhitespace ==
    /\ mode.tag = "Input"
    /\ input_buffer = <<" ", "a">> /\ input_cursor = 0
    /\ word_right_index(Self) = 2
    /\ word_left_index(Self) = 0

\* The session handed to the renderer at the top of the loop (lines 160-161).
Rendered == maybe_clear_status(Self)

NoneUnknown(es) == \A i \in 1..Len(es) : es[i].branch.tag # "Unknown"

\* The status reports a commit that rebuilt the entry list.
CommitReported(msg) ==
    /\ IsSome(status) /\ Unwrap(status).kind = "Info"
    /\ Unwrap(status).text.msg = msg

\* C37: every render happens after a refresh of the current entry list: no
\* entry of a session handed to the renderer has the status Unknown, at the
\* first render after the start and at the first render after an Add, Edit or
\* delete commit rebuilt the list included.
C37_NoUnknownRendered ==
    pc = "top" => NoneUnknown(Rendered.entries)

\* C37 witness: the render that follows an Add commit, which rebuilt a list of
\* two entries.
C37_Witness_RenderAfterAdd ==
    /\ pc = "top"
    /\ CommitReported("Registered")
    /\ Len(Rendered.entries) = 2

\* C37 witness: the render that follows an Edit commit.
C37_Witness_RenderAfterEdit ==
    /\ pc = "top"
    /\ CommitReported("Updated")
    /\ Rendered.entries # << >>

\* C37 witness: the render that follows a confirmed deletion that left an
\* entry.
C37_Witness_RenderAfterDelete ==
    /\ pc = "top"
    /\ CommitReported("Removed")
    /\ Rendered.entries # << >>

\* C37 witness: the first render of a session that loaded two entries.
C37_Witness_FirstRender ==
    /\ pc = "top" /\ ~dispatched /\ since_tick = 0
    /\ status = None /\ mode = ModeNormal
    /\ Len(Rendered.entries) = 2
    /\ config = store

====
